---- MODULE Spec2Model ----
(***************************************************************************)
(* UIBridge agent: the token middleware (app/main.py), the Spotify         *)
(* client-id store (app/main.py), and the Spotify adapter                  *)
(* (app/adapters/spotify.py): PKCE login, callback exchange, token         *)
(* storage with keyring + file fallback, and the playback operations.      *)
(*                                                                         *)
(* Values.  "None"/absent/empty is the empty tuple <<>> (every test in the *)
(* code is a truthiness test).  An agent token is <<"uib", k>>: the k-th   *)
(* value drawn from secrets.token_urlsafe; <<"uib", 0>> is a value the     *)
(* agent never issued.  Spotify tokens are <<"access", k>> and             *)
(* <<"refresh", k>>: the pair returned by the k-th token response of the   *)
(* provider; <<"access", 0>> is the value of the legacy keyring entry.     *)
(* Paths and client ids are sequences of one-character strings.            *)
(***************************************************************************)
EXTENDS Integers, Sequences, FiniteSets, TLC

VARIABLES
    tokenFile,   \* main.py TOKEN_FILE: <<>> or <<"uib", k>>
    krUp,        \* whether the keyring module imports and its calls succeed
    keyring,     \* the OS keyring: <<service, key>> -> value or <<>>
    cidFile,     \* secrets/UIBridge.spotify_client_id.txt: content or <<>>
    pkceFile,    \* spotify.py PKCE_STATE_FILE: <<>> or [state, code_verifier]
    tokensFile,  \* spotify.py TOKENS_FILE: key -> value or <<>>
    logins,      \* number of (state, verifier) pairs drawn so far
    issued,      \* number of token pairs the provider has returned
    task,        \* the playback coroutine in flight (position and locals)
    secretStore, \* auth/secrets.py: the keyring entries of service UIBridgeAgent
    clock,       \* time.time(), in hours
    APP,         \* services/word_service.py _APP: the Word instance and document
    ev           \* what the last step did: the request, its response, its calls

vars == <<tokenFile, krUp, keyring, cidFile, pkceFile, tokensFile, logins,
          issued, task, secretStore, clock, APP, ev>>

\* What the HTTP agent's token, client-id and Spotify code never touches
elsewhere == <<secretStore, clock, APP>>

----------------------------------------------------------------------------
(* Bounds *)

MaxTok == 2      \* agent tokens drawn (creation + resets)
MaxLogin == 2    \* login initiations
MaxExch == 2     \* token pairs returned by the provider
MaxDevs == 2     \* devices in one provider device list
MaxPick == 3     \* devices in one list given to _pick_device

None == <<>>

----------------------------------------------------------------------------
(* Strings as sequences of characters *)

startswith(s, p) == Len(s) >= Len(p) /\ SubSeq(s, 1, Len(p)) = p

IsSpace(c) == c \in {" ", "\t", "\n"}

RECURSIVE lstrip(_)
lstrip(s) == IF s # <<>> /\ IsSpace(Head(s)) THEN lstrip(Tail(s)) ELSE s

RECURSIVE rstrip(_)
rstrip(s) ==
    IF s # <<>> /\ IsSpace(s[Len(s)]) THEN rstrip(SubSeq(s, 1, Len(s) - 1)) ELSE s

strip(s) == rstrip(lstrip(s))

PRoot == <<"/">>
PHealth == <<"/", "h", "e", "a", "l", "t", "h">>
PHealthz == PHealth \o <<"z">>
PAuth == <<"/", "a", "u", "t", "h", "/", "s", "p", "o", "t", "i", "f", "y">>
PLogin == PAuth \o <<"/", "l", "o", "g", "i", "n">>
PCallback == PAuth \o <<"/", "c", "a", "l", "l", "b", "a", "c", "k">>
PV1 == <<"/", "v", "1">>
PPing == PV1 \o <<"/", "p", "i", "n", "g">>
PToken == PV1 \o <<"/", "t", "o", "k", "e", "n">>
PSpotify == PV1 \o <<"/", "s", "p", "o", "t", "i", "f", "y">>
PClientId == PSpotify \o <<"/", "c", "l", "i", "e", "n", "t", "-", "i", "d">>
PPlay == PSpotify \o <<"/", "p", "l", "a", "y">>
PPause == PSpotify \o <<"/", "p", "a", "u", "s", "e">>
PNow == PSpotify \o <<"/", "n", "o", "w">>
PDevices == PSpotify \o <<"/", "d", "e", "v", "i", "c", "e", "s">>
PV1Unknown == PV1 \o <<"x">>
PNope == <<"/", "x">>

\* Paths no route of app/main.py serves
UnroutedPaths == {PRoot, PHealthz, PV1Unknown, PNope}

\* str.lower() on the words the requests carry
lower(w) ==
    CASE w = "Reset" -> "reset"
      [] w = "Clear" -> "clear"
      [] w = "Computer" -> "computer"
      [] w = "COMPUTER" -> "computer"
      [] OTHER -> w

----------------------------------------------------------------------------
(* Agent token: main.py *)

Tok(k) == <<"uib", k>>

\* secrets.token_urlsafe(24): a value never drawn before.  The file always
\* holds the last value drawn, so the next draw is the successor of its index.
token_urlsafe(file) == IF file = None THEN Tok(1) ELSE Tok(file[2] + 1)

\* -> [t: the token returned, file: TOKEN_FILE afterwards]
get_or_create_token(file) ==
    IF file # None
    THEN [t |-> file, file |-> file]
    ELSE LET t == token_urlsafe(file) IN [t |-> t, file |-> t]

\* Mutant: a reset that keeps the token there is
reset_token_keeps(file) == get_or_create_token(file)

reset_token(file) ==
    LET t == token_urlsafe(file) IN [t |-> t, file |-> t]

\* Mutant: the comparison is made only when a header was sent
dispatch_absent_passes(path, hdr, file) ==
    IF path = PRoot \/ startswith(path, PHealth) \/ startswith(path, PAuth)
    THEN [pass |-> TRUE, file |-> file]
    ELSE IF startswith(path, PV1)
         THEN LET g == get_or_create_token(file) IN
              IF hdr # None /\ hdr # g.t
              THEN [pass |-> FALSE, file |-> g.file]
              ELSE [pass |-> TRUE, file |-> g.file]
         ELSE [pass |-> TRUE, file |-> file]

\* Mutant: only / and /health are public
dispatch_auth_protected(path, hdr, file) ==
    IF path = PRoot \/ startswith(path, PHealth)
    THEN [pass |-> TRUE, file |-> file]
    ELSE LET g == get_or_create_token(file) IN
         IF hdr # g.t
         THEN [pass |-> FALSE, file |-> g.file]
         ELSE [pass |-> TRUE, file |-> g.file]

\* The middleware.  hdr is the X-UIB-Token header (None when absent).
\* -> [pass: call_next is invoked, file: TOKEN_FILE afterwards]
dispatch(path, hdr, file) ==
    IF path = PRoot \/ startswith(path, PHealth) \/ startswith(path, PAuth)
    THEN [pass |-> TRUE, file |-> file]
    ELSE IF startswith(path, PV1)
         THEN LET g == get_or_create_token(file) IN
              IF hdr # g.t
              THEN [pass |-> FALSE, file |-> g.file]
              ELSE [pass |-> TRUE, file |-> g.file]
         ELSE [pass |-> TRUE, file |-> file]

\* Header values a client can send: none, a value the agent never issued,
\* or any token the agent has issued so far (the current one or an older one).
Headers ==
    {None, Tok(0)} \cup
    (IF tokenFile = None THEN {} ELSE {Tok(k) : k \in 1..tokenFile[2]})

----------------------------------------------------------------------------
(* The OS keyring (library): entries by <<service, key>> *)

KCid == <<"UIBridge", "spotify_client_id">>
KAccess == <<"UIBridge", "spotify_access_token">>
KRefresh == <<"UIBridge", "spotify_refresh_token">>
KLegacy == <<"UIBridgeSpotify", "access_token">>
KrKeys == {KCid, KAccess, KRefresh, KLegacy}

set_password(kr, service, key, value) == [kr EXCEPT ![<<service, key>>] = value]
get_password(kr, service, key) == kr[<<service, key>>]

----------------------------------------------------------------------------
(* Spotify client-id store: main.py.  st = [kr: keyring, file: the         *)
(* <service>.<key>.txt fallback file]; up: the keyring calls succeed.       *)

DEFAULT_SPOTIFY_CLIENT_ID == <<"d">>

main_kr_set(up, st, service, key, value) ==
    IF up
    THEN [st EXCEPT !.kr = set_password(st.kr, service, key, value)]
    ELSE [st EXCEPT !.file = value]

main_kr_get(up, st, service, key) ==
    IF up
    THEN get_password(st.kr, service, key)
    ELSE IF st.file # None THEN strip(st.file) ELSE None

\* keyring.delete_password raises when the entry is absent on the backends
\* that report it (absentRaises) and is a no-op on the others.
main_kr_del(up, st, service, key, absentRaises) ==
    IF up /\ ~(get_password(st.kr, service, key) = None /\ absentRaises)
    THEN [st EXCEPT !.kr = set_password(st.kr, service, key, None)]
    ELSE [st EXCEPT !.file = None]

\* Startup hook: seed the default client id when none is read back.
lifespan(up, st) ==
    LET current == main_kr_get(up, st, "UIBridge", "spotify_client_id") IN
    IF strip(current) = <<>>
    THEN IF strip(DEFAULT_SPOTIFY_CLIENT_ID) # <<>>
         THEN main_kr_set(up, st, "UIBridge", "spotify_client_id",
                          strip(DEFAULT_SPOTIFY_CLIENT_ID))
         ELSE st
    ELSE st

\* POST /v1/spotify/client-id.  body = [op, client_id]
\* -> [st: the store afterwards, ok, error]
spotify_client_id(up, st, body, absentRaises) ==
    IF body.op = "clear"
    THEN [st |-> main_kr_del(up, st, "UIBridge", "spotify_client_id", absentRaises),
          ok |-> TRUE, error |-> ""]
    ELSE IF body.op = "set"
    THEN LET cid == strip(body.client_id) IN
         IF cid = <<>>
         THEN [st |-> st, ok |-> FALSE, error |-> "missing client_id"]
         ELSE [st |-> main_kr_set(up, st, "UIBridge", "spotify_client_id", cid),
               ok |-> TRUE, error |-> ""]
    ELSE [st |-> st, ok |-> TRUE, error |-> ""]

----------------------------------------------------------------------------
(* Spotify adapter storage: adapters/spotify.py *)

\* -> [kr, file]: the keyring and TOKENS_FILE afterwards
sp_kr_set(up, kr, file, key, value) ==
    [kr |-> IF up THEN set_password(kr, "UIBridge", key, value) ELSE kr,
     file |-> [file EXCEPT ![key] = value]]

\* Mutant: no file fallback
sp_kr_get_keyring_only(up, kr, file, key) ==
    IF up /\ get_password(kr, "UIBridge", key) # None
    THEN get_password(kr, "UIBridge", key)
    ELSE IF key = "spotify_access_token" /\ up
              /\ get_password(kr, "UIBridgeSpotify", "access_token") # None
    THEN get_password(kr, "UIBridgeSpotify", "access_token")
    ELSE None

sp_kr_get(up, kr, file, key) ==
    IF up /\ get_password(kr, "UIBridge", key) # None
    THEN get_password(kr, "UIBridge", key)
    ELSE IF key = "spotify_access_token" /\ up
              /\ get_password(kr, "UIBridgeSpotify", "access_token") # None
    THEN get_password(kr, "UIBridgeSpotify", "access_token")
    ELSE file[key]

kr_get_client_id(up, kr, cfile) ==
    IF up /\ get_password(kr, "UIBridge", "spotify_client_id") # None
    THEN get_password(kr, "UIBridge", "spotify_client_id")
    ELSE IF cfile # None /\ strip(cfile) # <<>> THEN strip(cfile) ELSE None

access(up, kr, file) == sp_kr_get(up, kr, file, "spotify_access_token")

----------------------------------------------------------------------------
(* PKCE helpers *)

REDIRECT_URI == "http://127.0.0.1:5025/auth/spotify/callback"

\* Symbolic encodings: injective, and distinct from their argument.
b64url(data) == <<"b64url", data>>
sha256(data) == <<"sha256", data>>

\* secrets.token_bytes: the n-th login draws state bytes and verifier bytes,
\* two values never drawn before.
StateBytes(n) == <<"state", n>>
VerifierBytes(n) == <<"verifier", n>>

new_code_verifier_challenge(n) ==
    LET verifier == b64url(VerifierBytes(n)) IN
    [verifier |-> verifier, challenge |-> b64url(sha256(verifier))]

\* Mutant: the session file is written before the client id is looked at
begin_login_writes_first(up, kr, cfile, pkce, n) ==
    LET client_id == kr_get_client_id(up, kr, cfile)
        state == b64url(StateBytes(n))
        vc == new_code_verifier_challenge(n)
        session == [state |-> state, code_verifier |-> vc.verifier]
    IN IF client_id = None
       THEN [raised |-> TRUE, url |-> None, pkce |-> session]
       ELSE [raised |-> FALSE,
             pkce |-> session,
             url |-> [response_type |-> "code",
                      client_id |-> client_id,
                      redirect_uri |-> REDIRECT_URI,
                      code_challenge_method |-> "S256",
                      code_challenge |-> vc.challenge,
                      state |-> state]]

\* Mutant: a pending session is kept; the URL is built from the new draw
begin_login_keeps_pending(up, kr, cfile, pkce, n) ==
    LET client_id == kr_get_client_id(up, kr, cfile) IN
    IF client_id = None
    THEN [raised |-> TRUE, url |-> None, pkce |-> pkce]
    ELSE LET state == b64url(StateBytes(n))
             vc == new_code_verifier_challenge(n)
         IN [raised |-> FALSE,
             pkce |-> IF pkce # None THEN pkce
                      ELSE [state |-> state, code_verifier |-> vc.verifier],
             url |-> [response_type |-> "code",
                      client_id |-> client_id,
                      redirect_uri |-> REDIRECT_URI,
                      code_challenge_method |-> "S256",
                      code_challenge |-> vc.challenge,
                      state |-> state]]

\* n: index of the random draw.  -> [raised, url, pkce: PKCE_STATE_FILE afterwards]
begin_login(up, kr, cfile, pkce, n) ==
    LET client_id == kr_get_client_id(up, kr, cfile) IN
    IF client_id = None
    THEN [raised |-> TRUE, url |-> None, pkce |-> pkce]
    ELSE LET state == b64url(StateBytes(n))
             vc == new_code_verifier_challenge(n)
         IN [raised |-> FALSE,
             pkce |-> [state |-> state, code_verifier |-> vc.verifier],
             url |-> [response_type |-> "code",
                      client_id |-> client_id,
                      redirect_uri |-> REDIRECT_URI,
                      code_challenge_method |-> "S256",
                      code_challenge |-> vc.challenge,
                      state |-> state]]

\* The token endpoint's answer to one exchange call.
\*   err: the call raised (network error); badjson: r.json() raised;
\*   json: the decoded body (a missing key, null and "" all read as None).
TokenResponse(err, status, badjson, a, r) ==
    [err |-> err, status |-> status, badjson |-> badjson,
     json |-> [access_token |-> a, refresh_token |-> r]]

Access(k) == <<"access", k>>
Refresh(k) == <<"refresh", k>>

\* Mutant: an exchange that the provider refuses unlinks the account
Exchange_unlinks_on_refusal(up, kr, file, pkce, resp) ==
    LET same(ret) ==
            [ret |-> ret, exchanged |-> TRUE, kr |-> kr, file |-> file, pkce |-> pkce]
    IN
    IF resp.err THEN same("raise")
    ELSE IF resp.status # 200
    THEN LET s1 == sp_kr_set(up, kr, file, "spotify_access_token", None)
             s2 == sp_kr_set(up, s1.kr, s1.file, "spotify_refresh_token", None)
         IN [ret |-> "false", exchanged |-> TRUE,
             kr |-> s2.kr, file |-> s2.file, pkce |-> pkce]
    ELSE IF resp.badjson THEN same("raise")
    ELSE IF resp.json.access_token = None \/ resp.json.refresh_token = None
         THEN same("false")
    ELSE LET s1 == sp_kr_set(up, kr, file, "spotify_access_token",
                             resp.json.access_token)
             s2 == sp_kr_set(up, s1.kr, s1.file, "spotify_refresh_token",
                             resp.json.refresh_token)
         IN [ret |-> "true", exchanged |-> TRUE,
             kr |-> s2.kr, file |-> s2.file, pkce |-> None]

\* Mutant: the session file is left in place after the tokens are stored
Exchange_keeps_session(up, kr, file, pkce, resp) ==
    LET same(ret) ==
            [ret |-> ret, exchanged |-> TRUE, kr |-> kr, file |-> file, pkce |-> pkce]
    IN
    IF resp.err THEN same("raise")
    ELSE IF resp.status # 200 THEN same("false")
    ELSE IF resp.badjson THEN same("raise")
    ELSE IF resp.json.access_token = None \/ resp.json.refresh_token = None
         THEN same("false")
    ELSE LET s1 == sp_kr_set(up, kr, file, "spotify_access_token",
                             resp.json.access_token)
             s2 == sp_kr_set(up, s1.kr, s1.file, "spotify_refresh_token",
                             resp.json.refresh_token)
         IN [ret |-> "true", exchanged |-> TRUE,
             kr |-> s2.kr, file |-> s2.file, pkce |-> pkce]

\* Mutant: the access token is stored when the refresh token is missing
Exchange_partial(up, kr, file, pkce, resp) ==
    LET same(ret) ==
            [ret |-> ret, exchanged |-> TRUE, kr |-> kr, file |-> file, pkce |-> pkce]
    IN
    IF resp.err THEN same("raise")
    ELSE IF resp.status # 200 THEN same("false")
    ELSE IF resp.badjson THEN same("raise")
    ELSE IF resp.json.access_token = None THEN same("false")
    ELSE LET s1 == sp_kr_set(up, kr, file, "spotify_access_token",
                             resp.json.access_token)
             s2 == IF resp.json.refresh_token = None THEN s1
                   ELSE sp_kr_set(up, s1.kr, s1.file, "spotify_refresh_token",
                                  resp.json.refresh_token)
         IN [ret |-> "true", exchanged |-> TRUE,
             kr |-> s2.kr, file |-> s2.file, pkce |-> None]

\* The callback after its validation: the exchange call, the two stores and
\* the unlink of the session file.
Exchange(up, kr, file, pkce, resp) ==
    LET same(ret) ==
            [ret |-> ret, exchanged |-> TRUE, kr |-> kr, file |-> file, pkce |-> pkce]
    IN
    IF resp.err THEN same("raise")
    ELSE IF resp.status # 200 THEN same("false")
    ELSE IF resp.badjson THEN same("raise")
    ELSE IF resp.json.access_token = None \/ resp.json.refresh_token = None
         THEN same("false")
    ELSE LET s1 == sp_kr_set(up, kr, file, "spotify_access_token",
                             resp.json.access_token)
             s2 == sp_kr_set(up, s1.kr, s1.file, "spotify_refresh_token",
                             resp.json.refresh_token)
         IN [ret |-> "true", exchanged |-> TRUE,
             kr |-> s2.kr, file |-> s2.file, pkce |-> None]

\* Mutant: the state parameter is not compared with the stored state
handle_callback_any_state(params, up, kr, cfile, file, pkce, resp) ==
    LET same(ret, ex) ==
            [ret |-> ret, exchanged |-> ex, kr |-> kr, file |-> file, pkce |-> pkce]
    IN
    IF params.error # None THEN same("false", FALSE)
    ELSE IF params.code = None \/ params.state = None THEN same("false", FALSE)
    ELSE IF pkce = None THEN same("false", FALSE)
    ELSE IF pkce.code_verifier = None THEN same("false", FALSE)
    ELSE IF kr_get_client_id(up, kr, cfile) = None THEN same("false", FALSE)
    ELSE Exchange(up, kr, file, pkce, resp)

\* params = [error, code, state] (None when absent); resp: the answer the
\* token endpoint gives if it is called.
\* -> [ret: "true" | "false" | "raise", exchanged: the exchange call was made,
\*     kr, file, pkce: keyring, TOKENS_FILE and PKCE_STATE_FILE afterwards]
handle_callback(params, up, kr, cfile, file, pkce, resp) ==
    LET same(ret, ex) ==
            [ret |-> ret, exchanged |-> ex, kr |-> kr, file |-> file, pkce |-> pkce]
    IN
    IF params.error # None THEN same("false", FALSE)
    ELSE IF params.code = None \/ params.state = None THEN same("false", FALSE)
    ELSE IF pkce = None THEN same("false", FALSE)
    ELSE IF pkce.code_verifier = None \/ params.state # pkce.state
         THEN same("false", FALSE)
    ELSE IF kr_get_client_id(up, kr, cfile) = None THEN same("false", FALSE)
    ELSE Exchange(up, kr, file, pkce, resp)

----------------------------------------------------------------------------
(* State *)

Idle == [kind |-> "none", pc |-> "idle"]

Cid == [kr |-> keyring, file |-> cidFile]

\* The event of one step.  A request received carries its path and header;
\* the completion of a playback operation (its route's answer), a step of a
\* coroutine and a change of the environment carry no path.
Ev(op, path, hdr, status, pass, out) ==
    [op |-> op, path |-> path, hdr |-> hdr, status |-> status, pass |-> pass,
     out |-> out]

\* auth/secrets.py: no entry yet
EmptyStore == [token |-> None, stamp |-> None, drawn |-> 0]

\* word_service._APP as the module is loaded; made counts the Word
\* applications created since the last quit, and win32 says that the import
\* of win32com.client worked
NoApp == [word |-> None, doc |-> None, made |-> 0, win32 |-> TRUE]

\* The agent as it starts for the first time
InitAgent ==
    /\ tokenFile = None
    /\ krUp \in BOOLEAN
    /\ \E legacy \in {None, Access(0)} :
         LET kr0 == [k \in KrKeys |-> IF k = KLegacy THEN legacy ELSE None]
             st == lifespan(krUp, [kr |-> kr0, file |-> None])
         IN keyring = st.kr /\ cidFile = st.file
    /\ pkceFile = None
    /\ tokensFile = [k \in {"spotify_access_token", "spotify_refresh_token"} |-> None]
    /\ logins = 0
    /\ issued = 0
    /\ task = Idle
    /\ ev = Ev("startup", None, None, 0, FALSE, None)

Init ==
    /\ InitAgent
    /\ secretStore = EmptyStore
    /\ clock = 0
    /\ APP = NoApp

----------------------------------------------------------------------------
(* Environment *)

\* The keyring becomes unavailable (import or backend failure) or available
KeyringChange ==
    /\ krUp' = ~krUp
    /\ ev' = Ev("env", None, None, 0, FALSE, None)
    /\ UNCHANGED <<elsewhere, tokenFile, keyring, cidFile, pkceFile, tokensFile, logins,
                   issued, task>>

\* The agent process is restarted: the coroutine in flight is gone and the
\* startup hook runs again.
Restart ==
    /\ LET st == lifespan(krUp, Cid) IN keyring' = st.kr /\ cidFile' = st.file
    /\ task' = Idle
    /\ ev' = Ev("startup", None, None, 0, FALSE, None)
    /\ APP' = NoApp
    /\ UNCHANGED <<tokenFile, krUp, pkceFile, tokensFile, logins, issued,
                   secretStore, clock>>

----------------------------------------------------------------------------
(* HTTP requests: middleware, then the route's handler.  H is the set of   *)
(* header values the clients of a specification send.  A request is served *)
(* while no playback coroutine is in flight, or at any time if conc.       *)

Serving(conc) == conc \/ task = Idle

Reject(path, hdr, d) ==
    /\ tokenFile' = d.file
    /\ ev' = Ev("rejected", path, hdr, 401, FALSE, [error |-> "unauthorized"])
    /\ UNCHANGED <<elsewhere, krUp, keyring, cidFile, pkceFile, tokensFile, logins, issued,
                   task>>

\* Routes that touch nothing but the token file and the response
Reply(op, path, hdr, file, status, out) ==
    /\ tokenFile' = file
    /\ ev' = Ev(op, path, hdr, status, TRUE, out)
    /\ UNCHANGED <<elsewhere, krUp, keyring, cidFile, pkceFile, tokensFile, logins, issued,
                   task>>

health == [status |-> "ok", name |-> "UIBridge CLI Agent"]

ReqHealth(H, conc) ==
    /\ Serving(conc)
    /\ \E hdr \in H :
        LET d == dispatch(PHealth, hdr, tokenFile) IN
        IF ~d.pass THEN Reject(PHealth, hdr, d)
        ELSE Reply("health", PHealth, hdr, d.file, 200, health)

\* No route matches: the router answers 404
ReqUnrouted(H, conc) ==
    /\ Serving(conc)
    /\ \E path \in UnroutedPaths, hdr \in H :
        LET d == dispatch(path, hdr, tokenFile) IN
        IF ~d.pass THEN Reject(path, hdr, d)
        ELSE Reply("not_found", path, hdr, d.file, 404, None)

\* -> [file, out]
ping(file) ==
    LET g == get_or_create_token(file) IN
    [file |-> g.file, out |-> [pong |-> "pong", token |-> g.t]]

ReqPing(H, conc) ==
    /\ Serving(conc)
    /\ \E hdr \in H :
        LET d == dispatch(PPing, hdr, tokenFile) IN
        IF ~d.pass THEN Reject(PPing, hdr, d)
        ELSE LET r == ping(d.file) IN Reply("ping", PPing, hdr, r.file, 200, r.out)

token_get(file) ==
    LET g == get_or_create_token(file) IN [file |-> g.file, out |-> [token |-> g.t]]

ReqTokenGet(H, conc) ==
    /\ Serving(conc)
    /\ \E hdr \in H :
        LET d == dispatch(PToken, hdr, tokenFile) IN
        IF ~d.pass THEN Reject(PToken, hdr, d)
        ELSE LET r == token_get(d.file) IN
             Reply("token_get", PToken, hdr, r.file, 200, r.out)

\* body = [op]
token_post(body, file) ==
    LET g == IF lower(body.op) = "reset" THEN reset_token(file)
             ELSE get_or_create_token(file)
    IN [file |-> g.file, out |-> [token |-> g.t]]

TokenOps == {"ensure", "reset", "Reset", "other"}

ReqTokenPost(H, conc) ==
    /\ Serving(conc)
    /\ \E hdr \in H, o \in TokenOps :
        LET d == dispatch(PToken, hdr, tokenFile) IN
        IF ~d.pass THEN Reject(PToken, hdr, d)
        ELSE LET r == token_post([op |-> o], d.file) IN
             /\ r.file[2] <= MaxTok
             /\ Reply("token_post", PToken, hdr, r.file, 200,
                      [op |-> o, token |-> r.out.token])

CidOps == {"set", "clear", "Clear", ""}
CidInputs == {<<>>, <<" ">>, <<"u">>, <<" ", "u", " ">>}

ReqClientIdPost(H, conc) ==
    /\ Serving(conc)
    /\ \E hdr \in H, o \in CidOps, c \in CidInputs, absentRaises \in BOOLEAN :
        LET d == dispatch(PClientId, hdr, tokenFile) IN
        IF ~d.pass THEN Reject(PClientId, hdr, d)
        ELSE LET r == spotify_client_id(krUp, Cid, [op |-> lower(o), client_id |-> c],
                                        absentRaises)
             IN /\ tokenFile' = d.file
                /\ keyring' = r.st.kr
                /\ cidFile' = r.st.file
                /\ ev' = Ev("client_id", PClientId, hdr, 200, TRUE,
                            [op |-> o, client_id |-> c, ok |-> r.ok,
                             error |-> r.error])
                /\ UNCHANGED <<elsewhere, krUp, pkceFile, tokensFile, logins, issued, task>>

spotify_client_id_get(up, st) ==
    [ok |-> TRUE,
     client_id_set |-> main_kr_get(up, st, "UIBridge", "spotify_client_id") # None]

ReqClientIdGet(H, conc) ==
    /\ Serving(conc)
    /\ \E hdr \in H :
        LET d == dispatch(PClientId, hdr, tokenFile) IN
        IF ~d.pass THEN Reject(PClientId, hdr, d)
        ELSE Reply("client_id_get", PClientId, hdr, d.file, 200,
                   spotify_client_id_get(krUp, Cid))

\* GET /auth/spotify/login: the adapter's URL becomes a redirect, its
\* exception becomes a 500.  -> [status, out, pkce]
spotify_login(up, kr, cfile, pkce, n) ==
    LET r == begin_login(up, kr, cfile, pkce, n) IN
    IF r.raised
    THEN [status |-> 500, pkce |-> r.pkce,
          out |-> [ok |-> FALSE, error |-> "spotify_login_failed", url |-> None]]
    ELSE [status |-> 307, pkce |-> r.pkce,
          out |-> [ok |-> TRUE, error |-> "", url |-> r.url]]

ReqLogin(H, conc) ==
    /\ Serving(conc)
    /\ \E hdr \in H :
        LET d == dispatch(PLogin, hdr, tokenFile) IN
        IF ~d.pass THEN Reject(PLogin, hdr, d)
        ELSE LET r == spotify_login(krUp, keyring, cidFile, pkceFile, logins + 1) IN
             /\ tokenFile' = d.file
             /\ pkceFile' = r.pkce
             /\ r.out.ok => logins < MaxLogin
             /\ logins' = IF r.out.ok THEN logins + 1 ELSE logins
             /\ ev' = Ev("login", PLogin, hdr, r.status, TRUE, r.out)
             /\ UNCHANGED <<elsewhere, krUp, keyring, cidFile, tokensFile, issued, task>>

\* What the browser (or anyone) can put in the callback's query string
CallbackParams ==
    [error : {None, <<"access_denied">>},
     code : {None, <<"code">>},
     state : {None, b64url(StateBytes(0))} \cup
             {b64url(StateBytes(n)) : n \in 1..logins}]

\* What the token endpoint can answer to the next exchange call
TokenResponses ==
    {TokenResponse(TRUE, 0, FALSE, None, None),
     TokenResponse(FALSE, 400, FALSE, None, None),
     TokenResponse(FALSE, 200, TRUE, None, None)}
    \cup {TokenResponse(FALSE, 200, FALSE, a, r) :
            a \in {None, Access(issued + 1)}, r \in {None, Refresh(issued + 1)}}

\* The provider returned a token of a new pair
GaveTokens(resp) ==
    /\ ~resp.err /\ resp.status = 200 /\ ~resp.badjson
    /\ resp.json # [access_token |-> None, refresh_token |-> None]

\* GET /auth/spotify/callback: the adapter's result becomes {"ok": ...}, its
\* exception a 500.  -> [status, out, kr, file, pkce]
spotify_callback(params, up, kr, cfile, file, pkce, resp) ==
    LET r == handle_callback(params, up, kr, cfile, file, pkce, resp) IN
    [status |-> IF r.ret = "raise" THEN 500 ELSE 200,
     out |-> [ok |-> r.ret = "true", params |-> params, exchanged |-> r.exchanged,
              resp |-> IF r.exchanged THEN resp ELSE None],
     kr |-> r.kr, file |-> r.file, pkce |-> r.pkce]

\* P: the query strings sent; R: the token endpoint's possible answers
ReqCallback(H, P, R, conc) ==
    /\ Serving(conc)
    /\ \E hdr \in H, params \in P :
        LET d == dispatch(PCallback, hdr, tokenFile) IN
        IF ~d.pass THEN Reject(PCallback, hdr, d)
        ELSE \E resp \in R :
             LET r == spotify_callback(params, krUp, keyring, cidFile, tokensFile,
                                       pkceFile, resp)
                 gave == r.out.exchanged /\ GaveTokens(resp)
             IN /\ ~r.out.exchanged => resp = CHOOSE x \in R : TRUE
                /\ gave => issued < MaxExch
                /\ tokenFile' = d.file
                /\ keyring' = r.kr
                /\ tokensFile' = r.file
                /\ pkceFile' = r.pkce
                /\ issued' = IF gave THEN issued + 1 ELSE issued
                /\ ev' = Ev("callback", PCallback, hdr, r.status, TRUE, r.out)
                /\ UNCHANGED <<elsewhere, krUp, cidFile, logins, task>>

----------------------------------------------------------------------------
(* Spotify Web API calls: adapters/spotify.py *)

\* One answer of the Web API.  err: the call raised; badjson: r.json() raises
ApiResponse(err, status, badjson, json) ==
    [err |-> err, status |-> status, badjson |-> badjson, json |-> json]

NetworkError == ApiResponse(TRUE, 0, FALSE, None)

Dev(k) == <<"dev", k>>

\* -> [raised, devs]
get_devices(resp) ==
    IF resp.err THEN [raised |-> TRUE, devs |-> <<>>]
    ELSE IF resp.status # 200 THEN [raised |-> FALSE, devs |-> <<>>]
    ELSE IF resp.badjson THEN [raised |-> TRUE, devs |-> <<>>]
    ELSE [raised |-> FALSE, devs |-> resp.json]

IsActive(d) == d.is_active
IsComputer(d) == lower(d.type) = "computer"

\* The first active device, in list order
FirstActive(devs) ==
    devs[CHOOSE i \in 1..Len(devs) :
            IsActive(devs[i]) /\ \A j \in 1..(i - 1) : ~IsActive(devs[j])]

\* The first device of type computer, in list order
FirstComputer(devs) ==
    devs[CHOOSE i \in 1..Len(devs) :
            IsComputer(devs[i]) /\ \A j \in 1..(i - 1) : ~IsComputer(devs[j])]

\* Mutant: a computer is preferred to the active device
pick_device_computer_first(devs) ==
    IF devs = <<>> THEN None
    ELSE IF \E i \in 1..Len(devs) : IsComputer(devs[i])
         THEN FirstComputer(devs).id
    ELSE IF \E i \in 1..Len(devs) : IsActive(devs[i])
         THEN FirstActive(devs).id
    ELSE devs[1].id

pick_device(devs) ==
    IF devs = <<>> THEN None
    ELSE IF \E i \in 1..Len(devs) : IsActive(devs[i])
         THEN FirstActive(devs).id
    ELSE IF \E i \in 1..Len(devs) : IsComputer(devs[i])
         THEN FirstComputer(devs).id
    ELSE devs[1].id

\* wait_seconds and the poll interval, in tenths of a second
WAIT_TENTHS == 80
POLL_TENTHS == 5

Max(a, b) == IF a >= b THEN a ELSE b

\* Mutant: one poll more than the budget
PollSteps_one_more(wait) == Max(1, wait \div POLL_TENTHS) + 1

PollSteps(wait) == Max(1, wait \div POLL_TENTHS)

transfer_ok(resp) == resp.status \in {200, 204}

\* One entry of a playback operation's call log
Call(name, dev, play, status) ==
    [call |-> name, dev |-> dev, play |-> play, status |-> status, n |-> 0]

\* The entry for a finished _ensure_device: its result, the pick made after
\* each of its device-list calls, and their number
Ensured(dev, picks) ==
    [call |-> "ensure_device", dev |-> dev, play |-> FALSE, status |-> 0,
     n |-> Len(picks), picks |-> picks]

\* A coroutine of kind k at position pc
Task(k, pc, path) ==
    [kind |-> k, pc |-> pc, path |-> path, i |-> 0, app |-> "not_launched",
     dev |-> None, uri |-> None, picks |-> <<>>, log |-> <<>>]

taskless ==
    <<tokenFile, krUp, keyring, cidFile, pkceFile, tokensFile, logins, issued,
      elsewhere>>

\* The operation returns ret to its route, which answers 200
Finish(ret, log) ==
    /\ task' = Idle
    /\ ev' = Ev(task.kind, None, None, 200, TRUE,
                [ok |-> ret, raised |-> FALSE, calls |-> log])
    /\ UNCHANGED taskless

\* The operation raises; the route catches and answers {"ok": false, "error"}
Raise(log) ==
    /\ task' = Idle
    /\ ev' = Ev(task.kind, None, None, 200, TRUE,
                [ok |-> FALSE, raised |-> TRUE, calls |-> log])
    /\ UNCHANGED taskless

\* The operation goes on to its next await
Goto(t, call) ==
    /\ task' = t
    /\ ev' = Ev("step", None, None, 0, FALSE, [call |-> call])
    /\ UNCHANGED taskless

\* _ensure_device returned choice after the picks made so far
EnsureReturn(choice, picks) ==
    LET log == Append(task.log, Ensured(choice, picks)) IN
    IF choice = None THEN Finish(FALSE, log)
    ELSE Goto([task EXCEPT !.pc = IF task.kind = "play" THEN "search" ELSE "transfer",
                           !.dev = choice, !.i = 0, !.picks = <<>>, !.log = log],
              "devices")

\* Mutant: the app is launched before the first pick is looked at
StepDevices0_launches_first(DR) ==
    /\ task.pc = "devices0"
    /\ \E resp \in DR :
        LET g == get_devices(resp)
            choice == pick_device(g.devs)
        IN IF g.raised THEN Raise(task.log)
           ELSE \E launched \in BOOLEAN :
                LET app == IF launched THEN "launched" ELSE "launch_failed" IN
                IF choice # None
                THEN Goto([task EXCEPT
                             !.pc = IF task.kind = "play" THEN "search" ELSE "transfer",
                             !.dev = choice, !.app = app,
                             !.log = Append(task.log, Ensured(choice, <<choice>>))],
                          "devices")
                ELSE Goto([task EXCEPT !.pc = "poll", !.picks = <<choice>>,
                                       !.app = app],
                          "devices")

\* _ensure_device: the first device list; no pick launches the app
\* (launched: os.startfile worked, or it failed silently)
StepDevices0(DR) ==
    /\ task.pc = "devices0"
    /\ \E resp \in DR :
        LET g == get_devices(resp)
            choice == pick_device(g.devs)
        IN IF g.raised THEN Raise(task.log)
           ELSE IF choice # None THEN EnsureReturn(choice, <<choice>>)
           ELSE \E launched \in BOOLEAN :
                Goto([task EXCEPT !.pc = "poll", !.picks = <<choice>>,
                                  !.app = IF launched THEN "launched"
                                          ELSE "launch_failed"],
                     "devices")

\* _ensure_device: one round of the poll loop (sleep, list, pick)
StepPoll(DR) ==
    /\ task.pc = "poll"
    /\ task.i < PollSteps(WAIT_TENTHS)
    /\ \E resp \in DR :
        LET g == get_devices(resp)
            choice == pick_device(g.devs)
            i == task.i + 1
            picks == Append(task.picks, choice)
        IN IF g.raised THEN Raise(task.log)
           ELSE IF choice # None THEN EnsureReturn(choice, picks)
           ELSE IF i = PollSteps(WAIT_TENTHS) THEN EnsureReturn(None, picks)
           ELSE Goto([task EXCEPT !.i = i, !.picks = picks], "devices")

\* The log entry of the catalogue search, with the answer it got
Searched(resp) ==
    [call |-> "search", dev |-> None, play |-> FALSE, status |-> resp.status,
     n |-> 0, resp |-> resp]

\* Mutant: the track's uri is not looked at
StepSearch_any_uri(SR) ==
    /\ task.pc = "search"
    /\ \E resp \in SR :
        LET log == Append(task.log, Searched(resp))
            items == IF resp.json = None THEN <<>> ELSE resp.json
            uri == IF items = <<>> THEN None ELSE items[1].uri
        IN IF resp.err THEN Raise(log)
           ELSE IF resp.status # 200 THEN Finish(FALSE, log)
           ELSE IF resp.badjson THEN Raise(log)
           ELSE IF items = <<>> THEN Finish(FALSE, log)
           ELSE Goto([task EXCEPT !.pc = "transfer", !.uri = uri, !.log = log],
                     "search")

\* play_query: the catalogue search
StepSearch(SR) ==
    /\ task.pc = "search"
    /\ \E resp \in SR :
        LET log == Append(task.log, Searched(resp))
            items == IF resp.json = None THEN <<>> ELSE resp.json
            uri == IF items = <<>> THEN None ELSE items[1].uri
        IN IF resp.err THEN Raise(log)
           ELSE IF resp.status = 403 THEN Finish(FALSE, log)
           ELSE IF resp.status # 200 THEN Finish(FALSE, log)
           ELSE IF resp.badjson THEN Raise(log)
           ELSE IF items = <<>> THEN Finish(FALSE, log)
           ELSE IF uri = None THEN Finish(FALSE, log)
           ELSE Goto([task EXCEPT !.pc = "transfer", !.uri = uri, !.log = log],
                     "search")

\* Mutant: the result of the transfer is not looked at
StepTransfer_unchecked(PR) ==
    /\ task.pc = "transfer"
    /\ \E resp \in PR :
        LET play == task.kind = "play"
            log == Append(task.log, Call("transfer", task.dev, play, resp.status))
        IN IF resp.err THEN Raise(log)
           ELSE Goto([task EXCEPT !.pc = IF play THEN "play" ELSE "pause2",
                                  !.log = log],
                     "transfer")

\* _transfer_playback to the resolved device: play=True from play_query,
\* play=False from pause
StepTransfer(PR) ==
    /\ task.pc = "transfer"
    /\ \E resp \in PR :
        LET play == task.kind = "play"
            log == Append(task.log, Call("transfer", task.dev, play, resp.status))
        IN IF resp.err THEN Raise(log)
           ELSE IF ~transfer_ok(resp) THEN Finish(FALSE, log)
           ELSE Goto([task EXCEPT !.pc = IF play THEN "play" ELSE "pause2",
                                  !.log = log],
                     "transfer")

\* play_query: the play call with the track found
StepPlay(PR) ==
    /\ task.pc = "play"
    /\ \E resp \in PR :
        LET log == Append(task.log, Call("play", None, FALSE, resp.status)) IN
        IF resp.err THEN Raise(log)
        ELSE Finish(resp.status \in {200, 204}, log)

\* Mutant: every refusal of the first pause call starts the recovery
StepPause1_recovers_always(PR) ==
    /\ task.pc = "pause1"
    /\ \E resp \in PR :
        LET log == Append(task.log, Call("pause", None, FALSE, resp.status)) IN
        IF resp.err THEN Raise(log)
        ELSE IF resp.status \in {200, 204} THEN Finish(TRUE, log)
        ELSE Goto([task EXCEPT !.pc = "devices0", !.log = log], "pause")

\* pause: the first pause call
StepPause1(PR) ==
    /\ task.pc = "pause1"
    /\ \E resp \in PR :
        LET log == Append(task.log, Call("pause", None, FALSE, resp.status)) IN
        IF resp.err THEN Raise(log)
        ELSE IF resp.status \in {200, 204} THEN Finish(TRUE, log)
        ELSE IF resp.status = 403 THEN Finish(FALSE, log)
        ELSE IF resp.status = 404
             THEN Goto([task EXCEPT !.pc = "devices0", !.log = log], "pause")
        ELSE Finish(FALSE, log)

\* Mutant: the answer to the retried pause call is not looked at
StepPause2_any_status(PR) ==
    /\ task.pc = "pause2"
    /\ \E resp \in PR :
        LET log == Append(task.log, Call("pause", None, FALSE, resp.status)) IN
        IF resp.err THEN Raise(log)
        ELSE Finish(TRUE, log)

\* pause: the retry after the transfer
StepPause2(PR) ==
    /\ task.pc = "pause2"
    /\ \E resp \in PR :
        LET log == Append(task.log, Call("pause", None, FALSE, resp.status)) IN
        IF resp.err THEN Raise(log)
        ELSE Finish(resp.status \in {200, 204}, log)

RECURSIVE join(_, _)
join(sep, names) ==
    IF names = <<>> THEN <<>>
    ELSE IF Len(names) = 1 THEN names[1]
    ELSE names[1] \o sep \o join(sep, Tail(names))

\* Mutant: 403 is reported like any other refusal
now_playing_403_generic(resp) ==
    IF resp.err THEN [raised |-> TRUE, result |-> None]
    ELSE IF resp.status = 204
    THEN [raised |-> FALSE, result |-> [is_playing |-> FALSE]]
    ELSE IF resp.status # 200
    THEN [raised |-> FALSE, result |-> [error |-> <<"spotify_", resp.status>>]]
    ELSE IF resp.badjson THEN [raised |-> TRUE, result |-> None]
    ELSE LET j == resp.json
             artists == join(<<",", " ">>, j.item.artists)
         IN [raised |-> FALSE,
             result |-> [is_playing |-> j.is_playing, artist |-> artists,
                         track |-> j.item.name]]

\* The log entry of the currently-playing call, with the answer it got
NowAsked(resp) ==
    [call |-> "now", dev |-> None, play |-> FALSE, status |-> resp.status,
     n |-> 0, resp |-> resp]

\* now_playing's mapping of the currently-playing answer -> [raised, result]
now_playing(resp) ==
    IF resp.err THEN [raised |-> TRUE, result |-> None]
    ELSE IF resp.status = 204
    THEN [raised |-> FALSE, result |-> [is_playing |-> FALSE]]
    ELSE IF resp.status = 403
    THEN [raised |-> FALSE, result |-> [error |-> <<"premium_required">>]]
    ELSE IF resp.status # 200
    THEN [raised |-> FALSE, result |-> [error |-> <<"spotify_", resp.status>>]]
    ELSE IF resp.badjson THEN [raised |-> TRUE, result |-> None]
    ELSE LET j == resp.json
             artists == join(<<",", " ">>, j.item.artists)
         IN [raised |-> FALSE,
             result |-> [is_playing |-> j.is_playing, artist |-> artists,
                         track |-> j.item.name]]

StepNow(NR) ==
    /\ task.pc = "now"
    /\ \E resp \in NR :
        LET log == Append(task.log, NowAsked(resp))
            r == now_playing(resp)
        IN /\ task' = Idle
           /\ ev' = Ev("now", None, None, 200, TRUE,
                       [ok |-> ~r.raised, raised |-> r.raised, calls |-> log,
                        result |-> r.result])
           /\ UNCHANGED taskless

\* list_devices: one device-list call, reshaped
StepList(DR) ==
    /\ task.pc = "list"
    /\ \E resp \in DR :
        LET log == Append(task.log, Call("devices", None, FALSE, resp.status))
            g == get_devices(resp)
        IN /\ task' = Idle
           /\ ev' = Ev("devices", None, None, 200, TRUE,
                       [ok |-> ~g.raised, raised |-> g.raised, calls |-> log,
                        result |-> g.devs])
           /\ UNCHANGED taskless

----------------------------------------------------------------------------
(* Playback routes: main.py -> services/spotify_service.py -> the adapter  *)

\* Mutant: the operation goes to its first call without looking at the token
StartOp_unchecked(kind, path, pc0, sentinel, hdr, file) ==
    /\ tokenFile' = file
    /\ task' = Task(kind, pc0, path)
    /\ ev' = Ev("start", path, hdr, 0, TRUE,
                [kind |-> kind, token |-> access(krUp, keyring, tokensFile)])
    /\ UNCHANGED <<elsewhere, krUp, keyring, cidFile, pkceFile, tokensFile, logins, issued>>

\* The adapter operation begins: it reads the access token and either
\* returns its sentinel at once or goes to its first await.
StartOp(kind, path, pc0, sentinel, hdr, file) ==
    LET token == access(krUp, keyring, tokensFile) IN
    IF token = None
    THEN Reply(kind, path, hdr, file, 200, sentinel)
    ELSE /\ tokenFile' = file
         /\ task' = Task(kind, pc0, path)
         /\ ev' = Ev("start", path, hdr, 0, TRUE, [kind |-> kind, token |-> token])
         /\ UNCHANGED <<elsewhere, krUp, keyring, cidFile, pkceFile, tokensFile, logins, issued>>

Sentinel(ret) == [ok |-> ret, raised |-> FALSE, calls |-> <<>>]

Or(a, b) == IF a # None THEN a ELSE b

Queries == {<<>>, <<" ">>, <<"q">>}

\* POST /v1/spotify/play, body = [query, q]
ReqPlay(H) ==
    /\ task = Idle
    /\ \E hdr \in H, query \in Queries, alias \in Queries :
        LET d == dispatch(PPlay, hdr, tokenFile)
            q == strip(Or(query, alias))
        IN IF ~d.pass THEN Reject(PPlay, hdr, d)
           ELSE IF q = <<>>
                THEN Reply("play", PPlay, hdr, d.file, 200,
                           [ok |-> FALSE, raised |-> FALSE, calls |-> <<>>,
                            error |-> "missing query"])
           ELSE StartOp("play", PPlay, "devices0", Sentinel(FALSE), hdr, d.file)

\* POST /v1/spotify/pause
ReqPause(H) ==
    /\ task = Idle
    /\ \E hdr \in H :
        LET d == dispatch(PPause, hdr, tokenFile) IN
        IF ~d.pass THEN Reject(PPause, hdr, d)
        ELSE StartOp("pause", PPause, "pause1", Sentinel(FALSE), hdr, d.file)

\* GET /v1/spotify/now
ReqNow(H) ==
    /\ task = Idle
    /\ \E hdr \in H :
        LET d == dispatch(PNow, hdr, tokenFile) IN
        IF ~d.pass THEN Reject(PNow, hdr, d)
        ELSE StartOp("now", PNow, "now",
                     [ok |-> TRUE, raised |-> FALSE, calls |-> <<>>,
                      result |-> [error |-> <<"not_linked">>]],
                     hdr, d.file)

\* GET /v1/spotify/devices
ReqDevices(H) ==
    /\ task = Idle
    /\ \E hdr \in H :
        LET d == dispatch(PDevices, hdr, tokenFile) IN
        IF ~d.pass THEN Reject(PDevices, hdr, d)
        ELSE StartOp("devices", PDevices, "list",
                     [ok |-> TRUE, raised |-> FALSE, calls |-> <<>>, result |-> <<>>],
                     hdr, d.file)

----------------------------------------------------------------------------
(* The agent's HTTP surface: every route, every header value; the query    *)
(* strings and the provider's answers are the few that reach each route's  *)
(* handler (a foreign or the latest state; an exchange refused or          *)
(* granted; a Web API that cannot be reached).                             *)

LatestState == {b64url(StateBytes(n)) : n \in {logins}}

HttpCallbackParams ==
    [error : {None}, code : {<<"code">>},
     state : {b64url(StateBytes(0))} \cup LatestState]

HttpTokenResponses ==
    {TokenResponse(FALSE, 400, FALSE, None, None),
     TokenResponse(FALSE, 200, FALSE, Access(issued + 1), Refresh(issued + 1))}

HttpHealth == ReqHealth(Headers, FALSE)
HttpUnrouted == ReqUnrouted(Headers, FALSE)
HttpPing == ReqPing(Headers, FALSE)
HttpTokenGet == ReqTokenGet(Headers, FALSE)
HttpTokenPost == ReqTokenPost(Headers, FALSE)
HttpClientIdPost == ReqClientIdPost(Headers, FALSE)
HttpClientIdGet == ReqClientIdGet(Headers, FALSE)
HttpLogin == ReqLogin(Headers, FALSE)
HttpCallback == ReqCallback(Headers, HttpCallbackParams, HttpTokenResponses, FALSE)
HttpPlay == ReqPlay(Headers)
HttpPause == ReqPause(Headers)
HttpNow == ReqNow(Headers)
HttpDevices == ReqDevices(Headers)
HttpStepDevices0 == StepDevices0({NetworkError})
HttpStepPause1 == StepPause1({NetworkError})
HttpStepNow == StepNow({NetworkError})
HttpStepList == StepList({NetworkError})

NextHttp ==
    \/ HttpHealth
    \/ HttpUnrouted
    \/ HttpPing
    \/ HttpTokenGet
    \/ HttpTokenPost
    \/ HttpClientIdPost
    \/ HttpClientIdGet
    \/ HttpLogin
    \/ HttpCallback
    \/ HttpPlay
    \/ HttpPause
    \/ HttpNow
    \/ HttpDevices
    \/ HttpStepDevices0
    \/ HttpStepPause1
    \/ HttpStepNow
    \/ HttpStepList

SpecHttp == Init /\ [][NextHttp]_vars

----------------------------------------------------------------------------
(* The OAuth flow: login and callback with every query string and every    *)
(* answer of the token endpoint, the keyring coming and going, the client  *)
(* id set and cleared, and now-playing as the probe of "linked".  Clients  *)
(* send the agent's token (CurrentHdr) on the protected routes.            *)

CurrentHdr == {tokenFile}

NowItems ==
    {[name |-> None, artists |-> <<>>]} \cup
    [name : {<<"t">>}, artists : {<<>>, <<<<"a">>>>, <<<<"a">>, <<"b">>>>}]

NowResponses ==
    {NetworkError, ApiResponse(FALSE, 200, TRUE, None)}
    \cup {ApiResponse(FALSE, st, FALSE, None) : st \in {204, 403, 500}}
    \cup {ApiResponse(FALSE, 200, FALSE, [is_playing |-> p, item |-> it]) :
            p \in BOOLEAN, it \in NowItems}

OAuthKeyring == KeyringChange
OAuthLogin == ReqLogin({None}, FALSE)
OAuthCallback == ReqCallback({None}, CallbackParams, TokenResponses, FALSE)
OAuthClientId == ReqClientIdPost(CurrentHdr, FALSE)
OAuthNow == ReqNow(CurrentHdr)
OAuthStepNow == StepNow({NetworkError, ApiResponse(FALSE, 204, FALSE, None)})

NextOAuth ==
    \/ OAuthKeyring
    \/ OAuthLogin
    \/ OAuthCallback
    \/ OAuthClientId
    \/ OAuthNow
    \/ OAuthStepNow

SpecOAuth == Init /\ [][NextOAuth]_vars

----------------------------------------------------------------------------
(* The playback operations, await by await, against every answer of the    *)
(* Web API.  The agent is linked through the legacy keyring entry or not   *)
(* at all, and the keyring comes and goes.                                 *)

DevicePool ==
    {[id |-> Dev(1), type |-> "Speaker", is_active |-> TRUE],
     [id |-> Dev(2), type |-> "Computer", is_active |-> FALSE],
     [id |-> Dev(1), type |-> "Smartphone", is_active |-> FALSE],
     [id |-> None, type |-> "", is_active |-> FALSE]}

RECURSIVE SeqsUpTo(_, _)
SeqsUpTo(S, n) ==
    IF n = 0 THEN {<<>>}
    ELSE LET shorter == SeqsUpTo(S, n - 1) IN
         shorter \cup {Append(q, x) : q \in shorter, x \in S}

DeviceResponses ==
    {NetworkError, ApiResponse(FALSE, 500, FALSE, None),
     ApiResponse(FALSE, 200, TRUE, None)}
    \cup {ApiResponse(FALSE, 200, FALSE, devs) : devs \in SeqsUpTo(DevicePool, MaxDevs)}

SearchResponses ==
    {NetworkError, ApiResponse(FALSE, 200, TRUE, None)}
    \cup {ApiResponse(FALSE, st, FALSE, None) : st \in {403, 500}}
    \cup {ApiResponse(FALSE, 200, FALSE, items) :
            items \in {<<>>, <<[uri |-> None]>>, <<[uri |-> <<"track">>]>>}}

PutResponses ==
    {NetworkError} \cup
    {ApiResponse(FALSE, st, FALSE, None) : st \in {200, 204, 403, 404, 500}}

PlayKeyring == KeyringChange
PlayPlay == ReqPlay(CurrentHdr)
PlayPause == ReqPause(CurrentHdr)
PlayNow == ReqNow(CurrentHdr)
PlayDevices == ReqDevices(CurrentHdr)
PlayStepDevices0 == StepDevices0(DeviceResponses)
PlayStepPoll == StepPoll(DeviceResponses)
PlayStepSearch == StepSearch(SearchResponses)
PlayStepTransfer == StepTransfer(PutResponses)
PlayStepPlay == StepPlay(PutResponses)
PlayStepPause1 == StepPause1(PutResponses)
PlayStepPause2 == StepPause2(PutResponses)
PlayStepNow == StepNow(NowResponses)
PlayStepList == StepList(DeviceResponses)

NextPlay ==
    \/ PlayKeyring
    \/ PlayPlay
    \/ PlayPause
    \/ PlayNow
    \/ PlayDevices
    \/ PlayStepDevices0
    \/ PlayStepPoll
    \/ PlayStepSearch
    \/ PlayStepTransfer
    \/ PlayStepPlay
    \/ PlayStepPause1
    \/ PlayStepPause2
    \/ PlayStepNow
    \/ PlayStepList

SpecPlay == Init /\ [][NextPlay]_vars

\* Every await of _ensure_device completes: the HTTP client answers or
\* raises within its timeout, and the sleep returns.
SpecPlayLive ==
    SpecPlay /\ WF_vars(PlayStepDevices0) /\ WF_vars(PlayStepPoll)

----------------------------------------------------------------------------
(* Properties *)

V1Paths == {PPing, PToken, PClientId, PPlay, PPause, PNow, PDevices, PV1Unknown}
PublicPaths == {PRoot, PHealth, PHealthz, PLogin, PCallback}

\* C1: a request to a /v1 path whose X-UIB-Token header is absent or is not
\* the stored token is answered 401 and reaches no handler: nothing but the
\* token file changes, and that only by being created when there was none.
C1_UnauthorizedRejected ==
    [][(ev'.path # None /\ startswith(ev'.path, PV1) /\ ev'.hdr # tokenFile)
        => /\ ev'.status = 401
           /\ ~ev'.pass
           /\ UNCHANGED <<krUp, keyring, cidFile, pkceFile, tokensFile, logins,
                          issued, task>>
           /\ tokenFile' = tokenFile \/ tokenFile = None]_vars

\* C1 witness: after a reset, the token that was valid before is rejected
C1_Witness ==
    /\ ev.op = "rejected"
    /\ ev.path = PClientId
    /\ ev.hdr = Tok(1)
    /\ tokenFile = Tok(2)

\* C2: a request to a public path passes the middleware whatever its header,
\* the token file is neither read-and-created nor changed, and /health
\* answers 200 with status "ok".
C2_PublicPathsOpen ==
    [][(ev'.path # None /\ ev'.path \in PublicPaths)
        => /\ ev'.pass
           /\ ev'.status # 401
           /\ tokenFile' = tokenFile
           /\ ev'.path = PHealth => ev'.status = 200 /\ ev'.out.status = "ok"]_vars

\* C2 witness: /health served to a header the agent never issued, before any
\* token exists
C2_Witness ==
    /\ ev.op = "health"
    /\ ev.hdr = Tok(0)
    /\ ev.status = 200
    /\ tokenFile = None

\* The client id the adapter reads, and the answer a callback's exchange got
StoredClientId == kr_get_client_id(krUp, keyring, cidFile)
State(n) == b64url(StateBytes(n))
FullPair(resp) ==
    /\ resp # None
    /\ ~resp.err /\ resp.status = 200 /\ ~resp.badjson
    /\ resp.json.access_token # None /\ resp.json.refresh_token # None

\* C3: a callback without code or state, or with no stored session, or whose
\* state is not the stored session's state, fails without an exchange call
\* and leaves the keyring and the token file as they were.
C3_StateMismatchFails ==
    [][(/\ ev'.op = "callback"
        /\ \/ ev'.out.params.code = None
           \/ ev'.out.params.state = None
           \/ pkceFile = None
           \/ ev'.out.params.state # pkceFile.state)
        => /\ ~ev'.out.ok
           /\ ~ev'.out.exchanged
           /\ UNCHANGED <<keyring, tokensFile>>]_vars

\* C3 witness: a session is stored and the callback brings a foreign state
C3_Witness ==
    /\ ev.op = "callback"
    /\ pkceFile # None
    /\ ev.out.params.state = State(0)
    /\ ev.out.params.code # None
    /\ ev.out.params.error = None
    /\ StoredClientId # None
    /\ ~ev.out.ok

\* C4: a callback that made the exchange call leaves no session stored,
\* whatever the exchange answered.
C4_SessionDeletedAfterExchange ==
    [][(ev'.op = "callback" /\ ev'.out.exchanged) => pkceFile' = None]_vars

\* C5: the session slot holds the latest login only: a callback with the
\* state of an earlier login fails without an exchange call, and a callback
\* with the latest state (with a code, no error, a client id) is exchanged.
C5_SingleSessionSlot ==
    [][ev'.op = "callback"
        => LET p == ev'.out.params IN
           /\ \A n \in 1..(logins - 1) :
                p.state = State(n) => ~ev'.out.exchanged /\ ~ev'.out.ok
           /\ (/\ logins >= 1 /\ pkceFile # None /\ p.state = State(logins)
               /\ p.code # None /\ p.error = None /\ StoredClientId # None)
              => ev'.out.exchanged]_vars

\* C5 witness: two logins, no exchange yet, and the first login's state
\* comes back and is refused
C5_Witness ==
    /\ ev.op = "callback"
    /\ logins = 2
    /\ issued = 0
    /\ pkceFile # None
    /\ ev.out.params.state = State(1)
    /\ ev.out.params.code # None
    /\ ev.out.params.error = None
    /\ StoredClientId # None
    /\ ~ev.out.exchanged

\* C6: a callback stores tokens only when its exchange answered 200 with an
\* access and a refresh token, and then both are written (to the token file,
\* and to the keyring when it is available); in every other outcome it
\* reports failure and the keyring and the token file are as they were.
C6_NoPartialPersistence ==
    [][ev'.op = "callback"
        => IF ev'.out.exchanged /\ FullPair(ev'.out.resp)
           THEN /\ ev'.out.ok
                /\ tokensFile'["spotify_access_token"] = ev'.out.resp.json.access_token
                /\ tokensFile'["spotify_refresh_token"] = ev'.out.resp.json.refresh_token
                /\ krUp => /\ keyring'[KAccess] = ev'.out.resp.json.access_token
                           /\ keyring'[KRefresh] = ev'.out.resp.json.refresh_token
           ELSE /\ ~ev'.out.ok
                /\ UNCHANGED <<keyring, tokensFile>>]_vars

\* C6 witness: the exchange answered 200 with an access token and no refresh
\* token, while an earlier pair is stored
C6_Witness ==
    /\ ev.op = "callback"
    /\ ev.out.exchanged
    /\ ~ev.out.resp.err
    /\ ev.out.resp.status = 200
    /\ ~ev.out.resp.badjson
    /\ ev.out.resp.json.access_token # None
    /\ ev.out.resp.json.refresh_token = None
    /\ tokensFile["spotify_access_token"] = Access(1)

\* C7: login without a client id answers an error, returns no URL and leaves
\* the session file as it was; with a client id it writes a session and
\* redirects to a URL with that client id, S256, the challenge of the
\* written verifier and the written state.
C7_LoginNeedsClientId ==
    [][ev'.op = "login"
        => IF StoredClientId = None
           THEN /\ ev'.status = 500
                /\ ~ev'.out.ok
                /\ ev'.out.url = None
                /\ pkceFile' = pkceFile
           ELSE /\ ev'.status = 307
                /\ pkceFile' # None
                /\ ev'.out.url.client_id = StoredClientId
                /\ ev'.out.url.code_challenge_method = "S256"
                /\ ev'.out.url.code_challenge = b64url(sha256(pkceFile'.code_verifier))
                /\ ev'.out.url.state = pkceFile'.state]_vars

\* C7 witness: login refused for want of a client id while an earlier
\* session is pending
C7_Witness ==
    /\ ev.op = "login"
    /\ ev.status = 500
    /\ StoredClientId = None
    /\ pkceFile # None

LinkedByFlow ==
    /\ tokensFile["spotify_access_token"] # None
    /\ tokensFile["spotify_refresh_token"] # None

NotLinked == [error |-> <<"not_linked">>]

\* C8: a callback whose exchange answered 200 with both tokens leaves the
\* pair stored; the pair stays stored; and from then on no now-playing call
\* answers not_linked.
C8_LinkedAfterFlow ==
    [][/\ (ev'.op = "callback" /\ ev'.out.exchanged /\ FullPair(ev'.out.resp))
          => LinkedByFlow'
       /\ LinkedByFlow => LinkedByFlow'
       /\ (LinkedByFlow /\ ev'.op = "now") => ev'.out.result # NotLinked]_vars

\* C8 witness: no legacy entry, a pair stored by the flow, the keyring now
\* unavailable, and a now-playing call that went to the provider
C8_Witness ==
    /\ ev.op = "now"
    /\ ev.path = None
    /\ ev.out.result = [is_playing |-> FALSE]
    /\ keyring[KLegacy] = None
    /\ LinkedByFlow
    /\ ~krUp

PlaybackPaths == {PPlay, PPause, PNow, PDevices}

\* C9: a playback request that finds no access token is answered at once
\* with the operation's sentinel: no coroutine is left in flight, no Web API
\* call was made, nothing was raised.
C9_NotLinkedFailsFast ==
    [][(/\ ev'.path # None
        /\ ev'.path \in PlaybackPaths
        /\ ev'.pass
        /\ access(krUp, keyring, tokensFile) = None)
        => /\ ev'.op # "start"
           /\ task' = Idle
           /\ ev'.status = 200
           /\ ~ev'.out.raised
           /\ ev'.out.calls = <<>>
           /\ ev'.path = PNow => ev'.out.result = NotLinked
           /\ ev'.path \in {PPlay, PPause} => ~ev'.out.ok
           /\ ev'.path = PDevices => ev'.out.result = <<>>]_vars

\* C9 witness: pause answered false with an empty call log, the legacy entry
\* being hidden by an unavailable keyring
C9_Witness ==
    /\ ev.op = "pause"
    /\ ev.path = PPause
    /\ ~ev.out.ok
    /\ ev.out.calls = <<>>
    /\ keyring[KLegacy] # None
    /\ access(krUp, keyring, tokensFile) = None

\* The call log of the play_query in flight or just finished
PlayLog ==
    IF task # Idle /\ task.kind = "play" THEN task.log
    ELSE IF task = Idle /\ ev.op = "play" THEN ev.out.calls
    ELSE <<>>

\* C10: in the call log of play_query, a search comes only after
\* _ensure_device returned a device; a resolution that returned none ends
\* the operation with false; and a play call comes only after a transfer to
\* the resolved device with play=true that answered 200 or 204.
C10_PlayQueryOrder ==
    LET L == PlayLog IN
    \A j \in 1..Len(L) :
       /\ L[j].call = "search"
          => \E i \in 1..(j - 1) : L[i].call = "ensure_device" /\ L[i].dev # None
       /\ (L[j].call = "ensure_device" /\ L[j].dev = None)
          => j = Len(L) /\ task = Idle /\ ~ev.out.ok
       /\ L[j].call = "play"
          => \E k \in 1..(j - 1), i \in 1..(j - 1) :
                /\ k < i
                /\ L[k].call = "ensure_device" /\ L[k].dev # None
                /\ L[i].call = "transfer"
                /\ L[i].dev = L[k].dev
                /\ L[i].play
                /\ L[i].status \in {200, 204}

\* C10 witness: a device found only by polling, then search, transfer and
\* play, and the operation answered true
C10_Witness ==
    /\ task = Idle
    /\ ev.op = "play"
    /\ ev.path = None
    /\ ev.out.ok
    /\ Len(ev.out.calls) = 4
    /\ ev.out.calls[1].n > 1
    /\ ev.out.calls[4].call = "play"

\* How often call c is in log L
Count(L, c) == Cardinality({j \in 1..Len(L) : L[j].call = c})

\* The search answered, and with a non-200 status, no item, or a top item
\* that has no uri
SearchCameUpEmpty(resp) ==
    /\ ~resp.err
    /\ \/ resp.status # 200
       \/ /\ ~resp.badjson
          /\ \/ resp.json = <<>>
             \/ resp.json[1].uri = None

\* C11: in play_query, a search that answers non-200, or 200 with no item or
\* with a top item lacking a uri, is the last call and the result is false;
\* no stage is in the call log twice; and the result is true exactly when
\* the log is: a device resolved, a search answering 200 with a uri, a
\* transfer answering 200/204, a play call answering 200/204.
C11_PlayQueryShortCircuits ==
    LET L == PlayLog IN
    /\ \A j \in 1..Len(L) :
          (L[j].call = "search" /\ SearchCameUpEmpty(L[j].resp))
          => /\ j = Len(L)
             /\ task = Idle
             /\ ~ev.out.ok
             /\ ~ev.out.raised
             /\ Count(L, "transfer") = 0
             /\ Count(L, "play") = 0
    /\ \A c \in {"ensure_device", "search", "transfer", "play"} : Count(L, c) <= 1
    /\ (task = Idle /\ ev.op = "play")
       => (ev.out.ok <=>
             /\ Len(L) = 4
             /\ L[1].call = "ensure_device" /\ L[1].dev # None
             /\ L[2].call = "search" /\ L[2].status = 200
             /\ ~SearchCameUpEmpty(L[2].resp)
             /\ L[3].call = "transfer" /\ L[3].status \in {200, 204}
             /\ L[4].call = "play" /\ L[4].status \in {200, 204})

\* C11 witness: the search answered 200 with a track that has no uri, and
\* play_query returned false after two stages
C11_Witness ==
    /\ task = Idle
    /\ ev.op = "play"
    /\ ev.path = None
    /\ ~ev.out.ok
    /\ Len(ev.out.calls) = 2
    /\ ev.out.calls[2].call = "search"
    /\ ev.out.calls[2].status = 200
    /\ ev.out.calls[2].resp.json = <<[uri |-> None]>>

\* The call log of the pause in flight or just finished
PauseLog ==
    IF task # Idle /\ task.kind = "pause" THEN task.log
    ELSE IF task = Idle /\ ev.op = "pause" THEN ev.out.calls
    ELSE <<>>

\* The log is: pause answered 404, a device resolved, a transfer to it with
\* play=false answered 200/204, and a second pause call
Recovered(L) ==
    /\ Len(L) = 4
    /\ L[1].call = "pause" /\ L[1].status = 404
    /\ L[2].call = "ensure_device" /\ L[2].dev # None
    /\ L[3].call = "transfer" /\ L[3].dev = L[2].dev /\ ~L[3].play
    /\ L[3].status \in {200, 204}
    /\ L[4].call = "pause"

\* C12: a finished pause answered true exactly when its first pause call
\* answered 200/204, or the first answered 404, a device was resolved, the
\* transfer to it with play=false answered 200/204 and the retried pause
\* call answered 200/204.
C12_PauseResult ==
    LET L == PauseLog IN
    (task = Idle /\ ev.op = "pause")
    => (ev.out.ok <=>
          \/ Len(L) = 1 /\ L[1].call = "pause" /\ L[1].status \in {200, 204}
          \/ Recovered(L) /\ L[4].status \in {200, 204})

\* C12 witness: 404, then after the transfer 204, and the result is true
C12_Witness ==
    /\ task = Idle
    /\ ev.op = "pause"
    /\ ev.path = None
    /\ ev.out.ok
    /\ Recovered(ev.out.calls)
    /\ ev.out.calls[4].status = 204

\* C13: a pause issues at most two pause calls and at most one transfer; a
\* second pause call is the fourth call of a recovery; and a first answer
\* other than 200, 204 and 404 ends the operation with false after that one
\* call.
C13_PauseSingleRetry ==
    LET L == PauseLog IN
    /\ Count(L, "pause") <= 2
    /\ Count(L, "transfer") <= 1
    /\ Count(L, "ensure_device") <= 1
    /\ \A j \in 2..Len(L) : L[j].call = "pause" => j = 4 /\ Recovered(L)
    /\ (Len(L) >= 1 /\ L[1].status \notin {200, 204, 404})
       => Len(L) = 1 /\ task = Idle /\ ~ev.out.ok

\* C13 witness: the first pause call answered 403 and pause returned false
\* after that single call
C13_Witness ==
    /\ task = Idle
    /\ ev.op = "pause"
    /\ ev.path = None
    /\ ~ev.out.ok
    /\ ~ev.out.raised
    /\ Len(ev.out.calls) = 1
    /\ ev.out.calls[1].status = 403

----------------------------------------------------------------------------
(* _pick_device applied to every device list of up to MaxPick devices      *)

PickPool ==
    [id : {Dev(1), Dev(2)}, type : {"Computer", "COMPUTER", "Speaker"},
     is_active : BOOLEAN]
    \cup {[id |-> None, type |-> "", is_active |-> FALSE]}

\* One call per run, made on the agent as it started
PickCall ==
    /\ ev.op = "startup"
    /\ \E devs \in SeqsUpTo(PickPool, MaxPick) :
         ev' = Ev("pick", None, None, 0, FALSE,
                  [devs |-> devs, choice |-> pick_device(devs)])
    /\ UNCHANGED <<elsewhere, tokenFile, krUp, keyring, cidFile, pkceFile, tokensFile,
                   logins, issued, task>>

NextPick == PickCall

SpecPick == Init /\ [][NextPick]_vars

\* C14: _pick_device gives none for the empty list; else the id of the
\* first active device if one is active; else the id of the first device
\* whose type is "computer" in any letter case; else the first device's id.
C14_PickDevicePolicy ==
    ev.op = "pick" =>
    LET devs == ev.out.devs
        c == ev.out.choice
        I == 1..Len(devs)
        act(i) == devs[i].is_active
        comp(i) == devs[i].type \in {"computer", "Computer", "COMPUTER"}
        anyAct == \E i \in I : act(i)
        anyComp == \E i \in I : comp(i)
    IN /\ devs = <<>> => c = None
       /\ anyAct => \E i \in I : /\ act(i)
                                 /\ \A j \in 1..(i - 1) : ~act(j)
                                 /\ c = devs[i].id
       /\ (~anyAct /\ anyComp) => \E i \in I : /\ comp(i)
                                               /\ \A j \in 1..(i - 1) : ~comp(j)
                                               /\ c = devs[i].id
       /\ (devs # <<>> /\ ~anyAct /\ ~anyComp) => c = devs[1].id

\* C14 witness: the active device is last, behind a computer with another
\* id, and it is the one picked
C14_Witness ==
    /\ ev.op = "pick"
    /\ Len(ev.out.devs) = 3
    /\ ev.out.devs[1].type = "COMPUTER"
    /\ ~ev.out.devs[1].is_active
    /\ ~ev.out.devs[2].is_active
    /\ ev.out.devs[3].is_active
    /\ ev.out.devs[3].id # ev.out.devs[1].id
    /\ ev.out.choice = ev.out.devs[3].id

InEnsureDevice == task.pc \in {"devices0", "poll"}

\* The ensure_device entries of the operation in flight or just finished
EnsureEntries ==
    LET L == IF task # Idle THEN task.log
             ELSE IF ev.op \in {"play", "pause"} THEN ev.out.calls
             ELSE <<>>
    IN {L[j] : j \in {k \in 1..Len(L) : L[k].call = "ensure_device"}}

EnsureBounded ==
    /\ PollSteps(WAIT_TENTHS) = 16
    /\ InEnsureDevice
       => /\ task.i <= 16
          /\ Len(task.picks) <= 16
          /\ task.pc = "poll" => Len(task.picks) = task.i + 1
          /\ \A k \in 1..Len(task.picks) : task.picks[k] = None
    /\ \A e \in EnsureEntries :
          /\ e.n = Len(e.picks)
          /\ e.n >= 1 /\ e.n <= 17
          /\ \A k \in 1..(e.n - 1) : e.picks[k] = None
          /\ e.dev = e.picks[e.n]
          /\ e.dev = None => e.n = 17

\* C15: _ensure_device makes at most 16 polls after its first device list,
\* so at most 17 device-list calls; it returns the first pick that is not
\* none, having polled no further; it returns none only after 17 picks that
\* were all none; and once begun it always comes to an end.
C15_EnsureDeviceTerminates ==
    /\ []EnsureBounded
    /\ InEnsureDevice ~> ~InEnsureDevice

\* C15 witness: the budget was used up, 17 device lists and no device
C15_Witness ==
    /\ task = Idle
    /\ ev.op = "play"
    /\ ev.path = None
    /\ ~ev.out.ok
    /\ Len(ev.out.calls) = 1
    /\ ev.out.calls[1].call = "ensure_device"
    /\ ev.out.calls[1].dev = None
    /\ ev.out.calls[1].n = 17

\* C16: with a stored token, now_playing answers {is_playing: false} to a
\* 204, the premium_required error to a 403, an error tagged with the status
\* to any other non-200, and to a 200 the playing flag, the track name and
\* the artist names joined by ", " (none when there are no artists).
C16_NowPlayingMapping ==
    (ev.op = "now" /\ ev.path = None /\ ~ev.out.calls[1].resp.err)
    => LET resp == ev.out.calls[1].resp
           res == ev.out.result
           sep == <<",", " ">>
       IN /\ resp.status = 204 => res = [is_playing |-> FALSE]
          /\ resp.status = 403 => res = [error |-> <<"premium_required">>]
          /\ resp.status \notin {200, 204, 403}
             => res = [error |-> <<"spotify_", resp.status>>]
          /\ (resp.status = 200 /\ ~resp.badjson)
             => LET a == resp.json.item.artists IN
                /\ ~ev.out.raised
                /\ res.is_playing = resp.json.is_playing
                /\ res.track = resp.json.item.name
                /\ Len(a) = 0 => res.artist = None
                /\ Len(a) = 1 => res.artist = a[1]
                /\ Len(a) = 2 => res.artist = a[1] \o sep \o a[2]

\* C16 witness: a 200 with two artists, reported joined
C16_Witness ==
    /\ ev.op = "now"
    /\ ev.path = None
    /\ ev.out.calls[1].resp.status = 200
    /\ ~ev.out.raised
    /\ ev.out.result.is_playing
    /\ ev.out.result.track = <<"t">>
    /\ ev.out.result.artist = <<"a", ",", " ", "b">>

\* C17: an adapter operation whose provider call ended in a network error or
\* an unparsable body returns its sentinel: no playback operation ends by
\* raising into its route, and no callback is answered from the route's
\* exception handler.
C17_AdapterCatchesErrors ==
    /\ (ev.op \in {"now", "pause", "play", "devices"} /\ ev.path = None)
       => ~ev.out.raised
    /\ ev.op = "callback" => ev.status # 500

\* C18: a reset served to an authorized client stores and returns a token
\* other than the one before; a /v1 request passes exactly when its header
\* is the stored token, so the new one is accepted and the old one answered
\* 401 from the next request on; and once a token exists, only a reset
\* changes it, ensure and GET /v1/token returning it unchanged.
C18_ResetImmediate ==
    [][/\ (ev'.op = "token_post" /\ ev'.out.op \in {"reset", "Reset"})
          => /\ ev'.hdr = tokenFile
             /\ tokenFile' = ev'.out.token
             /\ tokenFile' # tokenFile
       /\ (ev'.path # None /\ startswith(ev'.path, PV1))
          => /\ ev'.pass <=> (tokenFile # None /\ ev'.hdr = tokenFile)
             /\ ~ev'.pass => ev'.status = 401
       /\ (tokenFile # None /\ tokenFile' # tokenFile)
          => ev'.op = "token_post" /\ ev'.out.op \in {"reset", "Reset"}
       /\ (tokenFile # None
           /\ \/ ev'.op = "token_get"
              \/ ev'.op = "token_post" /\ ev'.out.op \in {"ensure", "other"})
          => ev'.out.token = tokenFile]_vars

\* C18 witness: a reset sent with the first token has put the second in place
C18_Witness ==
    /\ ev.op = "token_post"
    /\ ev.out.op = "reset"
    /\ ev.hdr = Tok(1)
    /\ ev.out.token = Tok(2)
    /\ tokenFile = Tok(2)

----------------------------------------------------------------------------
(* The CLI: cli/cli.py.  A protected command first asks the agent for the  *)
(* token, then sends its request with the header built from the answer.    *)
(* The agent answers /health, so _start_agent_if_needed returns True.      *)

\* _get_or_create_token_via_agent: POST /v1/token {"op": "ensure"} with no
\* header; the token of a 200 answer, else "" (None).  -> [tok, status, file]
get_or_create_token_via_agent(file) ==
    LET d == dispatch(PToken, None, file) IN
    IF ~d.pass THEN [tok |-> None, status |-> 401, file |-> d.file]
    ELSE LET r == token_post([op |-> "ensure"], d.file) IN
         [tok |-> r.out.token, status |-> 200, file |-> r.file]

\* _headers: X-UIB-Token is sent only when a token was obtained
cli_headers(file) ==
    LET g == get_or_create_token_via_agent(file) IN
    [hdr |-> g.tok, token_status |-> g.status, file |-> g.file]

\* ui ping: GET /v1/ping with _headers()
CliPing ==
    /\ task = Idle
    /\ LET h == cli_headers(tokenFile)
           d == dispatch(PPing, h.hdr, h.file)
       IN IF ~d.pass
          THEN /\ tokenFile' = d.file
               /\ ev' = Ev("cli_ping", PPing, h.hdr, 401, FALSE,
                           [error |-> "unauthorized",
                            token_status |-> h.token_status])
          ELSE LET r == ping(d.file) IN
               /\ tokenFile' = r.file
               /\ ev' = Ev("cli_ping", PPing, h.hdr, 200, TRUE,
                           [pong |-> r.out, token_status |-> h.token_status])
    /\ UNCHANGED <<elsewhere, krUp, keyring, cidFile, pkceFile, tokensFile, logins, issued,
                   task>>

CliKeyring == KeyringChange
CliOtherPing == ReqPing(Headers, FALSE)
CliOtherTokenGet == ReqTokenGet(Headers, FALSE)
CliOtherTokenPost == ReqTokenPost(Headers, FALSE)
CliOtherHealth == ReqHealth(Headers, FALSE)

NextCli ==
    \/ CliPing
    \/ CliKeyring
    \/ CliOtherPing
    \/ CliOtherTokenGet
    \/ CliOtherTokenPost
    \/ CliOtherHealth

SpecCli == Init /\ [][NextCli]_vars

\* C19: a protected CLI command carries the agent's token in X-UIB-Token,
\* having obtained it from POST /v1/token, and is not answered 401.
C19_CliAgreesOnToken ==
    ev.op = "cli_ping"
    => /\ ev.out.token_status = 200
       /\ ev.hdr = tokenFile
       /\ ev.status # 401

----------------------------------------------------------------------------
(* The client id across restarts: the endpoint sets and clears it, the     *)
(* keyring comes and goes, the agent is restarted, and login shows which   *)
(* client id is in use.                                                    *)

CidKeyring == KeyringChange
CidRestart == Restart
CidPost == ReqClientIdPost(CurrentHdr, FALSE)
CidGet == ReqClientIdGet(CurrentHdr, FALSE)
CidLogin == ReqLogin({None}, FALSE)

NextCid ==
    \/ CidKeyring
    \/ CidRestart
    \/ CidPost
    \/ CidGet
    \/ CidLogin

SpecCid == Init /\ [][NextCid]_vars

\* C20: a startup leaves a stored non-blank client id, the user's included,
\* as the stored client id, and puts the default there only when none is
\* stored.
C20_StartupKeepsClientId ==
    [][ev'.op = "startup"
       => /\ StoredClientId # None => StoredClientId' = StoredClientId
          /\ StoredClientId = None
             => StoredClientId' = DEFAULT_SPOTIFY_CLIENT_ID]_vars

\* C21: a clear that returned ok leaves no client id stored; the agent
\* makes none appear again except by a set (or a startup's seeding, or the
\* keyring's return, which are not requests); while none is stored,
\* login answers its error without a redirect and a callback makes no
\* exchange; and a set with an empty or blank client_id is refused and
\* leaves the store as it was.
C21_ClearDisablesLogin ==
    [][/\ (ev'.op = "client_id" /\ ev'.out.op \in {"clear", "Clear"} /\ ev'.out.ok)
          => StoredClientId' = None
       /\ (StoredClientId = None /\ StoredClientId' # None)
          => \/ ev'.op = "client_id" /\ ev'.out.op = "set" /\ ev'.out.ok
             \/ ev'.op \in {"startup", "env"}
       /\ (ev'.op = "login" /\ StoredClientId = None)
          => ev'.status = 500 /\ ev'.out.url = None
       /\ (ev'.op = "callback" /\ StoredClientId = None) => ~ev'.out.exchanged
       /\ (ev'.op = "client_id" /\ ev'.out.op = "set"
           /\ strip(ev'.out.client_id) = <<>>)
          => ~ev'.out.ok /\ UNCHANGED <<keyring, cidFile>>]_vars

----------------------------------------------------------------------------
(* The credential-store token store (auth/secrets.py): one token and the   *)
(* time it was written, both kept as keyring passwords of the service      *)
(* UIBridgeAgent. Tokens are strings, written here as sequences of          *)
(* characters; time is in hours.                                           *)

MaxClock == 48   \* hours the clock runs

TOKEN_LIFETIME == 24

ascii_letters ==
    {"a", "b", "c", "d", "e", "f", "g", "h", "i", "j", "k", "l", "m", "n",
     "o", "p", "q", "r", "s", "t", "u", "v", "w", "x", "y", "z",
     "A", "B", "C", "D", "E", "F", "G", "H", "I", "J", "K", "L", "M", "N",
     "O", "P", "Q", "R", "S", "T", "U", "V", "W", "X", "Y", "Z"}

digits == {"0", "1", "2", "3", "4", "5", "6", "7", "8", "9"}

\* A string of n characters: head, then the filling character
Str(head, fill, n) == [i \in 1..n |-> IF i = 1 THEN head ELSE fill]

\* secrets.token_urlsafe(32): 43 base64url characters, the k-th draw
gen_token(k) == Str(CHOOSE c \in digits : c = ToString(k % 10), "A", 43)

\* str(time.time()), and float() of it: a written time reads back as written
str_time(now) == <<"t", now>>

IsFloat(s) == Len(s) = 2 /\ s[1] = "t"

float(s) == s[2]

\* A keyring entry that is no number
NotANumber == <<"x">>

is_token_expired_missing_ok(store, now) ==
    IF store.stamp = None THEN FALSE
    ELSE IF ~IsFloat(store.stamp) THEN TRUE
    ELSE (now - float(store.stamp)) > TOKEN_LIFETIME

is_token_expired(store, now) ==
    IF store.stamp = None THEN TRUE
    ELSE IF ~IsFloat(store.stamp) THEN TRUE
    ELSE (now - float(store.stamp)) > TOKEN_LIFETIME

validate_token(token) ==
    IF token = None THEN FALSE
    ELSE IF Len(token) < 32 \/ Len(token) > 64 THEN FALSE
    ELSE \A i \in 1..Len(token) : token[i] \in ascii_letters \cup digits \cup {"-", "_"}

\* Where a keyring call of an operation raises: nowhere, at a read, at the
\* write of the token, or at the write of the timestamp
KeyringFailures == {"none", "read", "write_token", "write_stamp"}

\* The two set_password calls that every writer ends with
set_passwords(store, token, now, fail) ==
    IF fail = "write_token"
    THEN [store |-> store, raised |-> TRUE, returned |-> None]
    ELSE IF fail = "write_stamp"
    THEN [store |-> [store EXCEPT !.token = token], raised |-> TRUE,
          returned |-> None]
    ELSE [store |-> [store EXCEPT !.token = token, !.stamp = str_time(now)],
          raised |-> FALSE, returned |-> token]

\* The token the generator draws next, and the store once it is drawn
drawn(store) == [store EXCEPT !.drawn = @ + 1]

sec_get_or_create_token(store, now, fail) ==
    IF fail = "read"
    THEN [store |-> store, raised |-> TRUE, returned |-> None]
    ELSE IF /\ store.token # None
            /\ validate_token(store.token)
            /\ ~is_token_expired(store, now)
    THEN [store |-> store, raised |-> FALSE, returned |-> store.token]
    ELSE set_passwords(drawn(store), gen_token(store.drawn + 1), now, fail)

get_token(store, now, fail) ==
    IF fail = "read"
    THEN [store |-> store, raised |-> TRUE, returned |-> None]
    ELSE IF /\ store.token # None
            /\ validate_token(store.token)
            /\ ~is_token_expired(store, now)
    THEN [store |-> store, raised |-> FALSE, returned |-> store.token]
    ELSE [store |-> store, raised |-> FALSE, returned |-> None]

set_token(store, value, now, fail) ==
    IF ~validate_token(value)
    THEN [store |-> store, raised |-> TRUE, returned |-> None]
    ELSE [set_passwords(store, value, now, fail) EXCEPT !.returned = None]

sec_reset_token(store, now, fail) ==
    set_passwords(drawn(store), gen_token(store.drawn + 1), now, fail)

\* Tokens another program or an older version may have left or may pass in:
\* too short, shortest, with '-' and '_', longest, too long, and with a
\* character outside the alphabet
ForeignTokens ==
    {Str("a", "b", 31), Str("a", "b", 32), Str("-", "_", 40),
     Str("a", "b", 64), Str("a", "b", 65), Str("+", "b", 40)}

StoreOut(name, r, fail) ==
    Ev(name, None, None, 0, FALSE,
       [returned |-> r.returned, raised |-> r.raised, fail |-> fail])

StoreStep(name, r, fail) ==
    /\ secretStore' = r.store
    /\ ev' = StoreOut(name, r, fail)
    /\ UNCHANGED <<tokenFile, krUp, keyring, cidFile, pkceFile, tokensFile,
                   logins, issued, task, clock, APP>>

StoreGetOrCreate ==
    \E fail \in KeyringFailures :
        /\ secretStore.drawn < MaxTok
        /\ StoreStep("get_or_create_token",
                     sec_get_or_create_token(secretStore, clock, fail), fail)

StoreGet ==
    \E fail \in {"none", "read"} :
        StoreStep("get_token", get_token(secretStore, clock, fail), fail)

StoreSet ==
    \E value \in ForeignTokens \cup {None}, fail \in KeyringFailures \ {"read"} :
        StoreStep("set_token", set_token(secretStore, value, clock, fail), fail)

StoreReset ==
    \E fail \in KeyringFailures \ {"read"} :
        /\ secretStore.drawn < MaxTok
        /\ StoreStep("reset_token", sec_reset_token(secretStore, clock, fail), fail)

\* Eight hours pass
StoreTick ==
    /\ clock + 8 <= MaxClock
    /\ clock' = clock + 8
    /\ ev' = Ev("tick", None, None, 0, FALSE, None)
    /\ UNCHANGED <<tokenFile, krUp, keyring, cidFile, pkceFile, tokensFile,
                   logins, issued, task, secretStore, APP>>

\* The keyring holds whatever was left there: no entry, a foreign token, no
\* timestamp, a timestamp that is no number, or one written at time 0
InitStore ==
    /\ InitAgent
    /\ secretStore \in [token : ForeignTokens \cup {None},
                        stamp : {None, NotANumber, str_time(0)},
                        drawn : {0}]
    /\ clock = 0
    /\ APP = NoApp

NextStore ==
    \/ StoreGetOrCreate
    \/ StoreGet
    \/ StoreSet
    \/ StoreReset
    \/ StoreTick

SpecStore == InitStore /\ [][NextStore]_vars

\* The format rule, and the age of the recorded creation time
FormatRule(token) ==
    /\ Len(token) \in 32..64
    /\ \A i \in 1..Len(token) : token[i] \in ascii_letters \cup digits \cup {"-", "_"}

RecordedWithinLifetime(store, now) ==
    /\ store.stamp # None
    /\ IsFloat(store.stamp)
    /\ now - float(store.stamp) <= 24

\* C22: a token returned by get_token or get_or_create_token obeys the format
\* rule and the creation time recorded for it is present and at most 24
\* hours old; get_or_create_token returns the stored token, and changes
\* nothing, when that token obeys the rule and is unexpired, and otherwise
\* returns a token never seen before, which is then the stored one with the
\* current time recorded; reset_token returns a token other than the stored
\* one, which is then the stored one with the current time recorded.
C22_TokenStoreRules ==
    [][/\ (ev'.op \in {"get_token", "get_or_create_token"}
           /\ ev'.out.returned # None)
          => /\ FormatRule(ev'.out.returned)
             /\ secretStore'.token = ev'.out.returned
             /\ RecordedWithinLifetime(secretStore', clock')
       /\ (ev'.op = "get_or_create_token" /\ ~ev'.out.raised)
          => IF /\ secretStore.token # None
                /\ FormatRule(secretStore.token)
                /\ RecordedWithinLifetime(secretStore, clock)
             THEN /\ ev'.out.returned = secretStore.token
                  /\ UNCHANGED secretStore
             ELSE /\ ev'.out.returned # secretStore.token
                  /\ ev'.out.returned \notin ForeignTokens
                  /\ \A k \in 1..secretStore.drawn :
                         ev'.out.returned # gen_token(k)
                  /\ secretStore'.token = ev'.out.returned
                  /\ secretStore'.stamp = str_time(clock')
       /\ (ev'.op = "reset_token" /\ ~ev'.out.raised)
          => /\ ev'.out.returned # secretStore.token
             /\ secretStore'.token = ev'.out.returned
             /\ secretStore'.stamp = str_time(clock')]_vars

\* get_or_create_token found a stored token of the right format whose
\* timestamp was more than 24 hours old, and replaced it
C22_Witness ==
    /\ ev.op = "get_or_create_token"
    /\ ~ev.out.raised
    /\ secretStore.drawn = 2
    /\ secretStore.token = gen_token(2)
    /\ secretStore.stamp = str_time(clock)
    /\ clock > 24

----------------------------------------------------------------------------
(* Requests in flight together. The agent serves every request on one      *)
(* event loop: a login and a callback run from start to end (the adapter's *)
(* begin_login and handle_callback never await), and a playback operation  *)
(* gives way to other requests at each of its awaits.                      *)

ConcLogin == ReqLogin({None}, TRUE)
ConcCallback == ReqCallback({None}, CallbackParams, TokenResponses, TRUE)
ConcNow == ReqNow(CurrentHdr)
ConcDevices == ReqDevices(CurrentHdr)
ConcStepNow == StepNow({NetworkError, ApiResponse(FALSE, 204, FALSE, None)})
ConcStepList == StepList({NetworkError, ApiResponse(FALSE, 200, FALSE, <<>>)})

NextConc ==
    \/ ConcLogin
    \/ ConcCallback
    \/ ConcNow
    \/ ConcDevices
    \/ ConcStepNow
    \/ ConcStepList

SpecConc == Init /\ [][NextConc]_vars

\* The exchange a stored token came from; 0 is the access token an earlier
\* version left in UIBridgeSpotify/access_token
ExchangeOf(token) == token[2]

SamePair(a, r) == (a # None /\ r # None) => ExchangeOf(a) = ExchangeOf(r)

\* C23: in the keyring, in the token file, and as _kr_get reads them, an
\* access token and a refresh token that are both stored come from the same
\* exchange response, and the token a playback operation reads at its start
\* is one that an exchange returned.
C23_PairNeverTorn ==
    /\ SamePair(keyring[KAccess], keyring[KRefresh])
    /\ SamePair(tokensFile["spotify_access_token"],
                tokensFile["spotify_refresh_token"])
    /\ LET r == sp_kr_get(krUp, keyring, tokensFile, "spotify_refresh_token") IN
       r # None => ExchangeOf(access(krUp, keyring, tokensFile)) = ExchangeOf(r)
    /\ ev.op = "start" => ev.out.token \in {Access(k) : k \in 0..issued}

\* A second exchange stored its pair while a playback operation that had
\* read the first pair's access token was waiting for the provider
C23_Witness ==
    /\ ev.op = "callback"
    /\ ev.out.ok
    /\ task # Idle
    /\ issued = 2
    /\ access(krUp, keyring, tokensFile) = Access(2)
    /\ sp_kr_get(krUp, keyring, tokensFile, "spotify_refresh_token") = Refresh(2)

----------------------------------------------------------------------------
----------------------------------------------------------------------------
\* t is an operation in flight
InTask(t) == t.kind # "none"

\* C25: an operation starts with the app not launched; the launch is tried
\* only in the step that made the first device list and picked none, when
\* none was tried before, and the polling starts from there; a first pick
\* that is a device is returned after that one device list, with no launch
\* and no poll; and after a launch that failed the polling goes on as after
\* one that worked: none is returned only when the last of the polls is done.
C25_LaunchOnceAfterNoDevice ==
    [][/\ (~InTask(task) /\ InTask(task')) => task'.app = "not_launched"
       /\ (InTask(task) /\ InTask(task') /\ task'.app # task.app)
          => /\ task.pc = "devices0"
             /\ task.app = "not_launched"
             /\ task'.pc = "poll"
             /\ task'.picks = <<None>>
             /\ task'.i = 0
       /\ (InTask(task) /\ task.pc = "devices0" /\ InTask(task')
           /\ task' # task /\ task'.pc # "poll")
          => /\ task'.app = "not_launched"
             /\ task'.dev # None
             /\ task'.log[Len(task'.log)] = Ensured(task'.dev, <<task'.dev>>)
       /\ (InTask(task) /\ task.pc = "poll" /\ task' # task)
          => /\ task.app # "not_launched"
             /\ (InTask(task') /\ task'.pc = "poll") => task'.i = task.i + 1
             /\ (~InTask(task') /\ ~ev'.out.raised)
                => task.i + 1 = PollSteps(WAIT_TENTHS)]_vars

\* The launch failed and the polling went on to its last round
C25_Witness ==
    /\ InTask(task)
    /\ task.pc = "poll"
    /\ task.app = "launch_failed"
    /\ task.i = PollSteps(WAIT_TENTHS) - 1

----------------------------------------------------------------------------
\* C26: _pick_device gives none for the empty list only; for a list that is
\* not empty, devices without an id included, it gives the id of one of the
\* list's devices, which _ensure_device takes as its result.
C26_PickNoneOnlyForEmpty ==
    ev.op = "pick" =>
    LET devs == ev.out.devs
        c == ev.out.choice
    IN /\ c = None <=> devs = <<>>
       /\ devs # <<>> => \E i \in 1..Len(devs) : devs[i].id # None /\ c = devs[i].id

----------------------------------------------------------------------------
(* The adapter's token storage by itself: _kr_set and _kr_get called with  *)
(* any key and value, the keyring coming and going between the calls.      *)

RoundKeys == {"spotify_access_token", "spotify_refresh_token"}
RoundValues == {Access(1), Access(2)}

RoundSet ==
    /\ task = Idle
    /\ \E key \in RoundKeys, value \in RoundValues :
        LET s == sp_kr_set(krUp, keyring, tokensFile, key, value) IN
        /\ keyring' = s.kr
        /\ tokensFile' = s.file
        /\ ev' = Ev("kr_set", None, None, 0, FALSE,
                    [key |-> key, value |-> value, up |-> krUp])
    /\ UNCHANGED <<elsewhere, tokenFile, krUp, cidFile, pkceFile, logins, issued, task>>

RoundGet ==
    /\ task = Idle
    /\ \E key \in RoundKeys :
        ev' = Ev("kr_get", None, None, 0, FALSE,
                 [key |-> key, value |-> sp_kr_get(krUp, keyring, tokensFile, key),
                  up |-> krUp])
    /\ UNCHANGED <<elsewhere, tokenFile, krUp, keyring, cidFile, pkceFile, tokensFile,
                   logins, issued, task>>

\* The keyring becomes unavailable or available again between two calls
RoundKeyring ==
    /\ krUp' = ~krUp
    /\ UNCHANGED <<elsewhere, tokenFile, keyring, cidFile, pkceFile, tokensFile,
                   logins, issued, task, ev>>

NextRound ==
    \/ RoundSet
    \/ RoundGet
    \/ RoundKeyring

SpecRound == Init /\ [][NextRound]_vars

\* C27: the _kr_get that follows a _kr_set of the same key returns the value
\* that was set, whatever the keyring's availability at either call and
\* whatever the keyring held before.
C27_StorageRoundTrip ==
    [][(ev.op = "kr_set" /\ ev'.op = "kr_get" /\ ev'.out.key = ev.out.key)
       => ev'.out.value = ev.out.value]_vars

----------------------------------------------------------------------------
(* The Word service (services/word_service.py): one Word application and   *)
(* its current document, held in _APP. Every COM call may raise.           *)

WordApp == <<"Word.Application">>

\* A document as Word holds it: its Path is empty until it is saved
Doc(path) == <<"doc", path>>

DocPath(doc) == doc[2]

\* Documents\UIBridge.docx in the home directory
DefaultTarget == <<"UIBridge.docx">>

Raised(app, error) == [app |-> app, raised |-> TRUE, error |-> error, ret |-> None]

Returned(app, ret) == [app |-> app, raised |-> FALSE, error |-> "", ret |-> ret]

\* Mutant: a Word application is created on every call
ensure_word_always_dispatches(app, fail) ==
    IF ~app.win32 THEN Raised(app, "pywin32_not_installed")
    ELSE IF fail = "Dispatch" THEN Raised(app, "com_error")
    ELSE Returned([app EXCEPT !.word = WordApp, !.made = @ + 1], WordApp)

\* fail: the COM call that raises in this operation, if it comes to it
ensure_word(app, fail) ==
    IF ~app.win32 THEN Raised(app, "pywin32_not_installed")
    ELSE IF app.word = None
    THEN IF fail = "Dispatch" THEN Raised(app, "com_error")
         ELSE Returned([app EXCEPT !.word = WordApp, !.made = @ + 1], WordApp)
    ELSE Returned(app, app.word)

open_document(app, path, fail) ==
    LET e == ensure_word(app, fail) IN
    IF e.raised THEN e
    ELSE IF fail = "Documents" THEN Raised(e.app, "com_error")
    ELSE Returned([e.app EXCEPT !.doc = Doc(path)], TRUE)

type_text(app, text, fail) ==
    LET e == ensure_word(app, fail) IN
    IF e.raised THEN e
    ELSE LET o == IF e.app.doc = None THEN open_document(e.app, None, fail)
                  ELSE Returned(e.app, TRUE)
         IN IF o.raised THEN o
            ELSE IF fail = "TypeText" THEN Raised(o.app, "com_error")
            ELSE Returned(o.app, Len(text))

save(app, fail) ==
    IF app.doc = None THEN Raised(app, "no_document")
    ELSE IF fail = "Save" THEN Raised(app, "com_error")
    ELSE IF DocPath(app.doc) = None
    THEN Returned([app EXCEPT !.doc = Doc(DefaultTarget)], DefaultTarget)
    ELSE Returned(app, DocPath(app.doc))

quit(app, fail) ==
    IF app.word # None /\ fail = "Quit" THEN Raised(app, "com_error")
    ELSE Returned([app EXCEPT !.word = None, !.doc = None, !.made = 0], TRUE)

WordPaths == {None, <<"a.docx">>}
WordTexts == {<<>>, <<"h", "i">>}

WordStep(name, arg, r, fail) ==
    /\ APP' = r.app
    /\ ev' = Ev(name, None, None, 0, FALSE,
                [raised |-> r.raised, error |-> r.error, ret |-> r.ret,
                 arg |-> arg, fail |-> fail])
    /\ UNCHANGED <<tokenFile, krUp, keyring, cidFile, pkceFile, tokensFile,
                   logins, issued, task, secretStore, clock>>

WordOpen ==
    \E path \in WordPaths, fail \in {"none", "Dispatch", "Documents"} :
        WordStep("open_document", path, open_document(APP, path, fail), fail)

WordType ==
    \E text \in WordTexts, fail \in {"none", "Dispatch", "Documents", "TypeText"} :
        WordStep("type_text", text, type_text(APP, text, fail), fail)

WordSave ==
    \E fail \in {"none", "Save"} :
        WordStep("save", None, save(APP, fail), fail)

WordQuit ==
    \E fail \in {"none", "Quit"} :
        WordStep("quit", None, quit(APP, fail), fail)

\* The service as its module is loaded, with or without pywin32
InitWord ==
    /\ InitAgent
    /\ secretStore = EmptyStore
    /\ clock = 0
    /\ APP \in {[NoApp EXCEPT !.win32 = w] : w \in BOOLEAN}

NextWord ==
    \/ WordOpen
    \/ WordType
    \/ WordSave
    \/ WordQuit

SpecWord == InitWord /\ [][NextWord]_vars

----------------------------------------------------------------------------
(* The browser adapter (adapters/browser_cdp.py): open_url and the launch  *)
(* of Edge it falls back to. An HTTP call to DevTools answers with a       *)
(* status or raises.                                                       *)

CDP_POLLS == 20

Cdp(err, status) == [err |-> err, status |-> status]

CdpResponses == {Cdp(TRUE, 0), Cdp(FALSE, 200), Cdp(FALSE, 500)}

\* The wait for /json/version: readyAt is the poll that DevTools first
\* answers 200 to, 0 if it never does.  -> the polls made, or 0 for not ready
RECURSIVE WaitDevTools(_, _)
WaitDevTools(i, readyAt) ==
    IF i > CDP_POLLS THEN 0
    ELSE IF readyAt = i THEN i
    ELSE WaitDevTools(i + 1, readyAt)

launch_edge_with_cdp(kill_existing, exe, popen, readyAt) ==
    IF ~exe THEN [ok |-> FALSE, kills |-> 0, launches |-> 0, polls |-> 0]
    ELSE LET kills == IF kill_existing THEN 1 ELSE 0 IN
         IF ~popen THEN [ok |-> FALSE, kills |-> kills, launches |-> 0, polls |-> 0]
         ELSE LET w == WaitDevTools(1, readyAt) IN
              [ok |-> w # 0, kills |-> kills, launches |-> 1,
               polls |-> IF w = 0 THEN CDP_POLLS ELSE w]

\* Mutant: the launch's answer is taken for the second request's
open_url_trusts_launch(r1, exe, popen, readyAt, r2) ==
    IF ~r1.err /\ r1.status = 200
    THEN [ret |-> TRUE, raised |-> FALSE, posts |-> 1, kills |-> 0,
          launches |-> 0, polls |-> 0]
    ELSE LET l == launch_edge_with_cdp(FALSE, exe, popen, readyAt) IN
         [ret |-> l.ok, raised |-> FALSE, posts |-> IF l.ok THEN 2 ELSE 1,
          kills |-> l.kills, launches |-> l.launches, polls |-> l.polls]

open_url(r1, exe, popen, readyAt, r2) ==
    IF ~r1.err /\ r1.status = 200
    THEN [ret |-> TRUE, raised |-> FALSE, posts |-> 1, kills |-> 0,
          launches |-> 0, polls |-> 0]
    ELSE LET l == launch_edge_with_cdp(FALSE, exe, popen, readyAt) IN
         IF ~l.ok
         THEN [ret |-> FALSE, raised |-> FALSE, posts |-> 1, kills |-> l.kills,
               launches |-> l.launches, polls |-> l.polls]
         ELSE [ret |-> IF r2.err THEN FALSE ELSE r2.status = 200,
               raised |-> FALSE, posts |-> 2, kills |-> l.kills,
               launches |-> l.launches, polls |-> l.polls]

\* DevTools never ready, ready at the first, at the last, or only after the
\* last poll
ReadyAt == {0, 1, CDP_POLLS, CDP_POLLS + 1}

\* One call per run
OpenUrlCall ==
    /\ ev.op = "startup"
    /\ \E r1 \in CdpResponses, exe \in BOOLEAN, popen \in BOOLEAN,
          readyAt \in ReadyAt, r2 \in CdpResponses :
         ev' = Ev("open_url", None, None, 0, FALSE,
                  [r1 |-> r1, exe |-> exe, popen |-> popen, readyAt |-> readyAt,
                   r2 |-> r2, res |-> open_url(r1, exe, popen, readyAt, r2)])
    /\ UNCHANGED <<elsewhere, tokenFile, krUp, keyring, cidFile, pkceFile, tokensFile,
                   logins, issued, task>>

NextBrowser == OpenUrlCall

SpecBrowser == Init /\ [][NextBrowser]_vars

\* C29: open_url makes one or two new-tab requests, launches Edge at most
\* once and kills nothing; it makes the second request exactly when the
\* first did not answer 200 and Edge was started and DevTools answered one
\* of the 20 polls; it returns true exactly when a request it made answered
\* 200, and false otherwise; it never raises.
C29_OpenUrlBounded ==
    ev.op = "open_url" =>
    LET inp == ev.out
        res == ev.out.res
        ok1 == ~inp.r1.err /\ inp.r1.status = 200
        ok2 == ~inp.r2.err /\ inp.r2.status = 200
        ready == inp.exe /\ inp.popen /\ inp.readyAt \in 1..20
    IN /\ res.posts \in {1, 2}
       /\ res.launches <= 1
       /\ res.kills = 0
       /\ res.polls <= 20
       /\ res.posts = 2 <=> (~ok1 /\ ready)
       /\ res.launches = 1 => ~ok1
       /\ res.ret = (ok1 \/ (res.posts = 2 /\ ok2))
       /\ ~res.raised

\* The first request failed, Edge was started, DevTools answered the 20th
\* poll, and the second request answered 200
C29_Witness ==
    /\ ev.op = "open_url"
    /\ ev.out.r1.err
    /\ ev.out.readyAt = 20
    /\ ev.out.res.polls = 20
    /\ ev.out.res.posts = 2
    /\ ev.out.res.launches = 1
    /\ ev.out.res.ret

----------------------------------------------------------------------------
(* The agent's operations on a linked account: logins, callbacks, client-id *)
(* changes, agent-token resets and playback operations, with the keyring    *)
(* either available or not for the whole run.                               *)

LinkLogin == ReqLogin({None}, FALSE)
LinkCallback == ReqCallback({None}, CallbackParams, TokenResponses, FALSE)
LinkClientId == ReqClientIdPost(CurrentHdr, FALSE)
LinkTokenPost == ReqTokenPost(CurrentHdr, FALSE)
LinkNow == ReqNow(CurrentHdr)
LinkStepNow == StepNow({NetworkError, ApiResponse(FALSE, 204, FALSE, None)})
LinkPause == ReqPause(CurrentHdr)
LinkStepPause1 ==
    StepPause1({ApiResponse(FALSE, 204, FALSE, None), ApiResponse(FALSE, 403, FALSE, None)})

NextLink ==
    \/ LinkLogin
    \/ LinkCallback
    \/ LinkClientId
    \/ LinkTokenPost
    \/ LinkNow
    \/ LinkStepNow
    \/ LinkPause
    \/ LinkStepPause1

SpecLink == Init /\ [][NextLink]_vars

\* _access() finds a token
Linked == access(krUp, keyring, tokensFile) # None

\* now_playing answered, and not with not_linked
NowLinked == ev.op = "now" /\ ev.out.result # NotLinked

====
